---- MODULE Spec2Model ----
(***************************************************************************)
(* Model of the RBAC core of aerotrack (src/rbac.py): the user directory,  *)
(* the session store, the audit log and the AuthenticationManager that     *)
(* composes them.                                                           *)
(*                                                                         *)
(* Conventions.  A Python str that the code inspects character by          *)
(* character (usernames, emails, passwords) is a sequence of one-character *)
(* strings; a str that is only compared (roles, permissions, messages) is  *)
(* a TLA+ string.  None is the empty tuple.  Every handler is an operator  *)
(* from the storage (a record S of st.session_state) and its arguments to  *)
(* the storage afterwards plus the returned value `ret`; the actions apply *)
(* these operators to the variables.                                       *)
(***************************************************************************)
EXTENDS Naturals, Sequences, FiniteSets, TLC

VARIABLES
    users,            \* st.session_state.rbac_users : user_id -> User
    sessions,         \* st.session_state.rbac_sessions : session_id -> Session
    current_session,  \* st.session_state.current_session : session_id or None
    audit_log,        \* st.session_state.rbac_audit_log : list of AuditLogEntry
    now,              \* the wall clock read by datetime.now(), in hours
    last_call,        \* the last handler called, its arguments and what it returned
    nops              \* number of handler calls made so far

vars == <<users, sessions, current_session, audit_log, now, last_call, nops>>

None == <<>>

-----------------------------------------------------------------------------
(* Characters and strings                                                  *)

UPPERCASE == <<"A","B","C","D","E","F","G","H","I","J","K","L","M","N","O","P","Q","R","S","T","U","V","W","X","Y","Z">>
LOWERCASE == <<"a","b","c","d","e","f","g","h","i","j","k","l","m","n","o","p","q","r","s","t","u","v","w","x","y","z">>
DIGITS == <<"0","1","2","3","4","5","6","7","8","9">>

Range(seq) == {seq[i] : i \in 1..Len(seq)}

UpperSet == Range(UPPERCASE)
LowerSet == Range(LOWERCASE)
DigitSet == Range(DIGITS)

\* str.lower() on one character
lower_char(c) ==
    IF c \in UpperSet
    THEN LOWERCASE[CHOOSE i \in 1..Len(UPPERCASE) : UPPERCASE[i] = c]
    ELSE c

\* str.lower()
lower(s) == [i \in 1..Len(s) |-> lower_char(s[i])]

\* re.match(r'^[a-zA-Z0-9_]{3,30}$', username)
username_format_ok(username) ==
    /\ Len(username) >= 3
    /\ Len(username) <= 30
    /\ \A i \in 1..Len(username) :
          username[i] \in UpperSet \cup LowerSet \cup DigitSet \cup {"_"}

EmailLocalChars == UpperSet \cup LowerSet \cup DigitSet \cup {".", "_", "%", "+", "-"}
EmailDomainChars == UpperSet \cup LowerSet \cup DigitSet \cup {".", "-"}

\* re.match(r'^[a-zA-Z0-9._%+-]+@[a-zA-Z0-9.-]+\.[a-zA-Z]{2,}$', email)
email_format_ok(email) ==
    \E at \in 2..Len(email) : \E dot \in (at + 2)..Len(email) :
        /\ email[at] = "@"
        /\ email[dot] = "."
        /\ Len(email) - dot >= 2
        /\ \A i \in 1..(at - 1) : email[i] \in EmailLocalChars
        /\ \A i \in (at + 1)..(dot - 1) : email[i] \in EmailDomainChars
        /\ \A i \in (dot + 1)..Len(email) : email[i] \in UpperSet \cup LowerSet

-----------------------------------------------------------------------------
(* Role and Permission enums, ROLE_PERMISSIONS                             *)

SUPER_ADMIN == "super_admin"
ADMIN == "admin"
MANAGER == "manager"
SENIOR_AGENT == "senior_agent"
AGENT == "agent"
VIEWER == "viewer"

Roles == {SUPER_ADMIN, ADMIN, MANAGER, SENIOR_AGENT, AGENT, VIEWER}

TransactionPermissions ==
    {"view_transactions", "view_all_transactions", "edit_transactions",
     "delete_transactions", "export_transactions"}
RefundPermissions ==
    {"view_refunds", "request_refund", "approve_refund", "reject_refund"}
EscalationPermissions ==
    {"view_escalations", "create_escalation", "resolve_escalation"}
AssistantPermissions == {"use_ai_assistant", "view_ai_history"}
AnalyticsPermissions ==
    {"view_basic_analytics", "view_advanced_analytics", "export_reports"}
UserPermissions ==
    {"view_users", "create_users", "edit_users", "delete_users", "assign_roles"}
SystemPermissions == {"view_audit_log", "manage_settings", "view_system_health"}

Permission ==
    TransactionPermissions \cup RefundPermissions \cup EscalationPermissions
    \cup AssistantPermissions \cup AnalyticsPermissions \cup UserPermissions
    \cup SystemPermissions

ROLE_PERMISSIONS ==
    [r \in Roles |->
        CASE r = SUPER_ADMIN -> Permission
          [] r = ADMIN -> Permission
          [] r = MANAGER ->
                (TransactionPermissions \ {"delete_transactions"})
                \cup RefundPermissions \cup EscalationPermissions
                \cup AssistantPermissions \cup AnalyticsPermissions
                \cup {"view_users", "view_audit_log"}
          [] r = SENIOR_AGENT ->
                (TransactionPermissions \ {"delete_transactions"})
                \cup {"view_refunds", "request_refund"}
                \cup EscalationPermissions \cup AssistantPermissions
                \cup {"view_basic_analytics", "view_advanced_analytics"}
          [] r = AGENT ->
                {"view_transactions", "edit_transactions", "view_refunds",
                 "request_refund", "view_escalations", "create_escalation",
                 "use_ai_assistant", "view_basic_analytics"}
          [] r = VIEWER ->
                {"view_transactions", "view_refunds", "view_escalations",
                 "view_basic_analytics"}]

\* ROLE_PERMISSIONS.get(role, set())
role_permissions_get(role) ==
    IF role \in DOMAIN ROLE_PERMISSIONS THEN ROLE_PERMISSIONS[role] ELSE {}

-----------------------------------------------------------------------------
(* PasswordManager                                                         *)

MIN_LENGTH == 8
SPECIAL_CHARS == <<"!","@","#","$","%","^","&","*","(",")","_","+","-","=","[","]","{","}","|",";",":",",",".","<",">","?">>

\* The salted, iterated SHA-256 digest of salt + password + salt.  The digest
\* is taken to be collision free: it is the salted string itself.
digest(password, salt) == <<salt, password, salt>>

\* PasswordManager.hash_password: the stored string "salt$hash"
hash_password(password, salt) == [salt |-> salt, hash |-> digest(password, salt)]

\* PasswordManager.verify_password: split the stored string on "$", hash the
\* candidate with the embedded salt, compare the whole strings
verify_password(password, stored_hash) ==
    hash_password(password, stored_hash.salt) = stored_hash

ERR_LENGTH == "Password must be at least 8 characters"
ERR_UPPER == "Password must contain at least one uppercase letter"
ERR_LOWER == "Password must contain at least one lowercase letter"
ERR_DIGIT == "Password must contain at least one digit"
ERR_SPECIAL == "Password must contain at least one special character (!@#$%^&*()_+-=[]{}|;:,.<>?)"

\* a validation without the length rule
password_errors_any_length(password) ==
    (IF ~ \E i \in 1..Len(password) : password[i] \in UpperSet
        THEN <<ERR_UPPER>> ELSE <<>>)
    \o (IF ~ \E i \in 1..Len(password) : password[i] \in LowerSet
        THEN <<ERR_LOWER>> ELSE <<>>)
    \o (IF ~ \E i \in 1..Len(password) : password[i] \in DigitSet
        THEN <<ERR_DIGIT>> ELSE <<>>)
    \o (IF ~ \E i \in 1..Len(password) : password[i] \in Range(SPECIAL_CHARS)
        THEN <<ERR_SPECIAL>> ELSE <<>>)

\* PasswordManager.validate_password_strength: the list of violated rules
password_errors(password) ==
    (IF Len(password) < MIN_LENGTH THEN <<ERR_LENGTH>> ELSE <<>>)
    \o (IF ~ \E i \in 1..Len(password) : password[i] \in UpperSet
        THEN <<ERR_UPPER>> ELSE <<>>)
    \o (IF ~ \E i \in 1..Len(password) : password[i] \in LowerSet
        THEN <<ERR_LOWER>> ELSE <<>>)
    \o (IF ~ \E i \in 1..Len(password) : password[i] \in DigitSet
        THEN <<ERR_DIGIT>> ELSE <<>>)
    \o (IF ~ \E i \in 1..Len(password) : password[i] \in Range(SPECIAL_CHARS)
        THEN <<ERR_SPECIAL>> ELSE <<>>)

-----------------------------------------------------------------------------
(* Timestamps, identifiers, storage                                        *)

SESSION_DURATION_HOURS == 8
MAX_FAILED_ATTEMPTS == 5
AUDIT_LOG_MAX == 1000

\* datetime.isoformat() and datetime.fromisoformat(): the text form of an instant
isoformat(t) == <<"iso", t>>
fromisoformat(s) == s[2]

\* f"USR-{secrets.token_hex(8).upper()}" and secrets.token_urlsafe(32): random
\* tokens, which do not repeat; the n-th one drawn is numbered n
user_token(n) == <<"USR", n>>
session_token(n) == <<"tok", n>>

SYSTEM == <<"system">>

\* st.session_state after _initialize_storage
empty_storage ==
    [users |-> <<>>, sessions |-> <<>>, current_session |-> None, audit_log |-> <<>>]

storage(R) ==
    [users |-> R.users, sessions |-> R.sessions,
     current_session |-> R.current_session, audit_log |-> R.audit_log]

\* a handler's outcome: the storage it leaves and the value it returns
Return(S, ret) ==
    [users |-> S.users, sessions |-> S.sessions,
     current_session |-> S.current_session, audit_log |-> S.audit_log, ret |-> ret]

\* the (success, message[, value]) tuples the handlers return
Result(ok, msg, value) == [ok |-> ok, msg |-> msg, value |-> value]

\* rbac_users[user_id] = user, rbac_sessions[session_id] = session
put(map, key, value) ==
    [k \in DOMAIN map \cup {key} |-> IF k = key THEN value ELSE map[k]]

\* AuthenticationManager._log_action: append, then keep the last 1000 entries
\* a truncation that keeps the oldest entries
keep_first(log, n) ==
    IF Len(log) > n THEN SubSeq(log, 1, n) ELSE log

keep_last(log, n) ==
    IF Len(log) > n THEN SubSeq(log, Len(log) - n + 1, Len(log)) ELSE log

_log_action(S, t, user_id, username, action, resource_type, resource_id, details, status) ==
    LET entry == [timestamp |-> isoformat(t), user_id |-> user_id,
                  username |-> username, action |-> action,
                  resource_type |-> resource_type, resource_id |-> resource_id,
                  details |-> details, ip_address |-> "", status |-> status]
    IN  [S EXCEPT !.audit_log = keep_last(Append(S.audit_log, entry), AUDIT_LOG_MAX)]

\* entries.sort(key=lambda x: x.timestamp, reverse=True): a later timestamp
\* first, entries of equal timestamp in the order they had
RECURSIVE sort_by_timestamp_desc(_)
sort_by_timestamp_desc(entries) ==
    IF entries = <<>> THEN <<>>
    ELSE LET e == entries[Len(entries)]
             sorted == sort_by_timestamp_desc(SubSeq(entries, 1, Len(entries) - 1))
             ahead == {i \in 1..Len(sorted) :
                          fromisoformat(sorted[i].timestamp) >= fromisoformat(e.timestamp)}
             k == Cardinality(ahead)
         IN  SubSeq(sorted, 1, k) \o <<e>> \o SubSeq(sorted, k + 1, Len(sorted))

\* entries[:limit]
first_entries(entries, limit) ==
    IF Len(entries) > limit THEN SubSeq(entries, 1, limit) ELSE entries

\* AuthenticationManager.get_audit_log; `if user_id:`, `if action:` and
\* `if resource_type:` skip a filter that is None or empty
get_audit_log(S, user_id, action, resource_type, limit) ==
    LET by_user(e) == user_id = None \/ e.user_id = user_id
        by_action(e) == action = "" \/ e.action = action
        by_resource(e) == resource_type = "" \/ e.resource_type = resource_type
        entries == SelectSeq(SelectSeq(SelectSeq(S.audit_log, by_user), by_action),
                             by_resource)
    IN  Return(S, first_entries(sort_by_timestamp_desc(entries), limit))

-----------------------------------------------------------------------------
(* User management                                                         *)

\* AuthenticationManager.get_user
get_user(S, user_id) ==
    IF user_id \in DOMAIN S.users THEN S.users[user_id] ELSE None

\* AuthenticationManager.get_user_by_username: the first user, in insertion
\* order, whose lower-cased username is the lower-cased argument
get_user_by_username(S, username) ==
    LET hits == {id \in DOMAIN S.users : lower(S.users[id].username) = lower(username)}
    IN  IF hits = {} THEN None
        ELSE S.users[CHOOSE id \in hits : \A o \in hits : id[2] <= o[2]]

\* username.lower() in [u.username.lower() for u in rbac_users.values()]
username_exists(S, username) ==
    \E id \in DOMAIN S.users : lower(S.users[id].username) = lower(username)

\* an email check that compares without lower-casing
email_exists_case_sensitive(S, email) ==
    \E id \in DOMAIN S.users : S.users[id].email = email

\* email.lower() in [u.email.lower() for u in rbac_users.values()]
email_exists(S, email) ==
    \E id \in DOMAIN S.users : lower(S.users[id].email) = lower(email)

MSG_USERNAME_FORMAT == <<"Username must be 3-30 alphanumeric characters or underscores">>
MSG_USERNAME_EXISTS == <<"Username already exists">>
MSG_EMAIL_FORMAT == <<"Invalid email format">>
MSG_EMAIL_EXISTS == <<"Email already registered">>
MSG_INVALID_ROLE == <<"Invalid role">>
MSG_USER_CREATED == <<"User created successfully">>
MSG_USER_NOT_FOUND == <<"User not found">>
MSG_USER_UPDATED == <<"User updated successfully">>
MSG_CANNOT_DELETE_SELF == <<"Cannot delete your own account">>
MSG_USER_DEACTIVATED == <<"User deactivated successfully">>
MSG_CURRENT_PASSWORD_INCORRECT == <<"Current password is incorrect">>
MSG_PASSWORD_CHANGED == <<"Password changed successfully">>
MSG_PASSWORD_RESET == <<"Password reset successfully">>
MSG_USER_UNLOCKED == <<"User account unlocked">>

\* the User dataclass as create_user fills it in
new_user(t, a, user_id, password_hash) ==
    [user_id |-> user_id, username |-> a.username, email |-> a.email,
     password_hash |-> password_hash, role |-> a.role,
     first_name |-> a.first_name, last_name |-> a.last_name,
     department |-> a.department, is_active |-> TRUE, is_locked |-> FALSE,
     failed_login_attempts |-> 0, last_login |-> None,
     created_at |-> isoformat(t), updated_at |-> isoformat(t),
     created_by |-> a.created_by,
     password_changed_at |-> IF a.must_change_password THEN None ELSE isoformat(t),
     must_change_password |-> a.must_change_password,
     custom_permissions |-> <<>>, denied_permissions |-> <<>>]

\* AuthenticationManager.create_user; `a` holds the keyword arguments, user_id
\* and salt are the random draws
create_user(S, t, a, user_id, salt) ==
    IF ~ username_format_ok(a.username)
    THEN Return(S, Result(FALSE, MSG_USERNAME_FORMAT, None))
    ELSE IF username_exists(S, a.username)
    THEN Return(S, Result(FALSE, MSG_USERNAME_EXISTS, None))
    ELSE IF ~ email_format_ok(a.email)
    THEN Return(S, Result(FALSE, MSG_EMAIL_FORMAT, None))
    ELSE IF email_exists(S, a.email)
    THEN Return(S, Result(FALSE, MSG_EMAIL_EXISTS, None))
    ELSE IF password_errors(a.password) # <<>>
    THEN Return(S, Result(FALSE, password_errors(a.password), None))
    ELSE IF a.role \notin Roles
    THEN Return(S, Result(FALSE, MSG_INVALID_ROLE, None))
    ELSE
      LET user == new_user(t, a, user_id, hash_password(a.password, salt))
          S1 == [S EXCEPT !.users = put(S.users, user_id, user)]
          S2 == _log_action(S1, t,
                    IF a.created_by # SYSTEM THEN a.created_by ELSE <<"SYSTEM">>,
                    a.created_by, "CREATE_USER", "user", user_id,
                    [username |-> a.username, role |-> a.role], "success")
      IN  Return(S2, Result(TRUE, MSG_USER_CREATED, user))

\* self.get_user(actor).username if self.get_user(actor) else actor
actor_name(S, actor) ==
    IF get_user(S, actor) # None THEN get_user(S, actor).username ELSE actor

\* an allow-list that lets the lockout fields through
allowed_fields_and_lockout ==
    {"email", "first_name", "last_name", "department", "is_active", "role",
     "custom_permissions", "denied_permissions", "is_locked",
     "failed_login_attempts"}

allowed_fields ==
    {"email", "first_name", "last_name", "department", "is_active", "role",
     "custom_permissions", "denied_permissions"}

\* AuthenticationManager.update_user; kwargs maps field names to values
update_user(S, t, user_id, updated_by, kwargs) ==
    IF get_user(S, user_id) = None
    THEN Return(S, Result(FALSE, MSG_USER_NOT_FOUND, None))
    ELSE
      LET user == S.users[user_id]
          changed == DOMAIN kwargs \cap allowed_fields
          changes == [f \in changed |-> kwargs[f]]
          user1 == [f \in DOMAIN user |-> IF f \in changed THEN kwargs[f] ELSE user[f]]
          user2 == [user1 EXCEPT !.updated_at = isoformat(t)]
          S1 == [S EXCEPT !.users[user_id] = user2]
          S2 == _log_action(S1, t, updated_by, actor_name(S1, updated_by),
                    "UPDATE_USER", "user", user_id, changes, "success")
      IN  Return(S2, Result(TRUE, MSG_USER_UPDATED, None))

-----------------------------------------------------------------------------
(* Sessions                                                                *)

\* datetime.fromisoformat(session.expires_at) < datetime.now()
session_expired(session, t) == fromisoformat(session.expires_at) < t

\* a lookup that does not look at the session's is_active flag
get_current_session_ignores_flag(S, t) ==
    IF S.current_session = None
    THEN Return(S, None)
    ELSE IF S.current_session \notin DOMAIN S.sessions
    THEN Return(S, None)
    ELSE IF session_expired(S.sessions[S.current_session], t)
    THEN Return([S EXCEPT !.sessions[S.current_session].is_active = FALSE,
                          !.current_session = None], None)
    ELSE
      LET S1 == [S EXCEPT !.sessions[S.current_session].last_activity = isoformat(t)]
      IN  Return(S1, S1.sessions[S.current_session])

\* AuthenticationManager.get_current_session
get_current_session(S, t) ==
    IF S.current_session = None
    THEN Return(S, None)
    ELSE IF S.current_session \notin DOMAIN S.sessions
    THEN Return(S, None)
    ELSE IF ~ S.sessions[S.current_session].is_active
    THEN Return(S, None)
    ELSE IF session_expired(S.sessions[S.current_session], t)
    THEN Return([S EXCEPT !.sessions[S.current_session].is_active = FALSE,
                          !.current_session = None], None)
    ELSE
      LET S1 == [S EXCEPT !.sessions[S.current_session].last_activity = isoformat(t)]
      IN  Return(S1, S1.sessions[S.current_session])

\* AuthenticationManager.get_current_user
get_current_user(S, t) ==
    LET R == get_current_session(S, t)
    IN  IF R.ret = None THEN R ELSE Return(R, get_user(R, R.ret.user_id))

\* AuthenticationManager.is_authenticated
is_authenticated(S, t) ==
    LET R == get_current_session(S, t) IN Return(R, R.ret # None)

\* a logout that leaves the current-session reference in place
logout_keeps_reference(S, t) ==
    LET session_id == S.current_session
        S1 == IF session_id # None /\ session_id \in DOMAIN S.sessions
              THEN _log_action([S EXCEPT !.sessions[session_id].is_active = FALSE], t,
                       S.sessions[session_id].user_id, S.sessions[session_id].username,
                       "LOGOUT", "session", session_id, <<>>, "success")
              ELSE S
    IN  Return(S1, TRUE)

\* AuthenticationManager.logout
logout(S, t) ==
    LET session_id == S.current_session
        S1 == IF session_id # None /\ session_id \in DOMAIN S.sessions
              THEN _log_action([S EXCEPT !.sessions[session_id].is_active = FALSE], t,
                       S.sessions[session_id].user_id, S.sessions[session_id].username,
                       "LOGOUT", "session", session_id, <<>>, "success")
              ELSE S
    IN  Return([S1 EXCEPT !.current_session = None], TRUE)

-----------------------------------------------------------------------------
(* Deactivation, passwords, unlock                                         *)

\* an invalidation that stops at the user's first session
invalidate_first_session(sess, user_id) ==
    LET owned == {sid \in DOMAIN sess : sess[sid].user_id = user_id}
    IN  [sid \in DOMAIN sess |->
            IF sid \in owned /\ \A o \in owned : sid[2] <= o[2]
            THEN [sess[sid] EXCEPT !.is_active = FALSE]
            ELSE sess[sid]]

\* for session in rbac_sessions.values(): if session.user_id == user_id: ...
invalidate_sessions(sess, user_id) ==
    [sid \in DOMAIN sess |->
        IF sess[sid].user_id = user_id
        THEN [sess[sid] EXCEPT !.is_active = FALSE]
        ELSE sess[sid]]

\* AuthenticationManager.delete_user
delete_user(S, t, user_id, deleted_by) ==
    IF get_user(S, user_id) = None
    THEN Return(S, Result(FALSE, MSG_USER_NOT_FOUND, None))
    ELSE
      LET C == get_current_user(S, t)
      IN  IF C.ret # None /\ C.ret.user_id = user_id
          THEN Return(C, Result(FALSE, MSG_CANNOT_DELETE_SELF, None))
          ELSE
            LET S1 == [storage(C) EXCEPT
                          !.users[user_id].is_active = FALSE,
                          !.users[user_id].updated_at = isoformat(t),
                          !.sessions = invalidate_sessions(C.sessions, user_id)]
                S2 == _log_action(S1, t, deleted_by, actor_name(S1, deleted_by),
                          "DELETE_USER", "user", user_id,
                          [username |-> S1.users[user_id].username], "success")
            IN  Return(S2, Result(TRUE, MSG_USER_DEACTIVATED, None))

\* a change_password that ends the user's sessions
change_password_ends_sessions(S, t, user_id, current_password, new_password, salt) ==
    IF get_user(S, user_id) = None
    THEN Return(S, Result(FALSE, MSG_USER_NOT_FOUND, None))
    ELSE IF ~ verify_password(current_password, S.users[user_id].password_hash)
    THEN Return(S, Result(FALSE, MSG_CURRENT_PASSWORD_INCORRECT, None))
    ELSE IF password_errors(new_password) # <<>>
    THEN Return(S, Result(FALSE, password_errors(new_password), None))
    ELSE
      LET S1 == [S EXCEPT
                    !.users[user_id].password_hash = hash_password(new_password, salt),
                    !.users[user_id].password_changed_at = isoformat(t),
                    !.users[user_id].must_change_password = FALSE,
                    !.users[user_id].updated_at = isoformat(t),
                    !.sessions = invalidate_sessions(S.sessions, user_id)]
          S2 == _log_action(S1, t, user_id, S1.users[user_id].username,
                    "CHANGE_PASSWORD", "user", user_id, <<>>, "success")
      IN  Return(S2, Result(TRUE, MSG_PASSWORD_CHANGED, None))

\* a change_password that validates the new password before it verifies
\* the current one
change_password_strength_first(S, t, user_id, current_password, new_password, salt) ==
    IF get_user(S, user_id) = None
    THEN Return(S, Result(FALSE, MSG_USER_NOT_FOUND, None))
    ELSE IF password_errors(new_password) # <<>>
    THEN Return(S, Result(FALSE, password_errors(new_password), None))
    ELSE IF ~ verify_password(current_password, S.users[user_id].password_hash)
    THEN Return(S, Result(FALSE, MSG_CURRENT_PASSWORD_INCORRECT, None))
    ELSE
      LET S1 == [S EXCEPT
                    !.users[user_id].password_hash = hash_password(new_password, salt),
                    !.users[user_id].password_changed_at = isoformat(t),
                    !.users[user_id].must_change_password = FALSE,
                    !.users[user_id].updated_at = isoformat(t)]
          S2 == _log_action(S1, t, user_id, S1.users[user_id].username,
                    "CHANGE_PASSWORD", "user", user_id, <<>>, "success")
      IN  Return(S2, Result(TRUE, MSG_PASSWORD_CHANGED, None))

\* AuthenticationManager.change_password; salt is the random draw
change_password(S, t, user_id, current_password, new_password, salt) ==
    IF get_user(S, user_id) = None
    THEN Return(S, Result(FALSE, MSG_USER_NOT_FOUND, None))
    ELSE IF ~ verify_password(current_password, S.users[user_id].password_hash)
    THEN Return(S, Result(FALSE, MSG_CURRENT_PASSWORD_INCORRECT, None))
    ELSE IF password_errors(new_password) # <<>>
    THEN Return(S, Result(FALSE, password_errors(new_password), None))
    ELSE
      LET S1 == [S EXCEPT
                    !.users[user_id].password_hash = hash_password(new_password, salt),
                    !.users[user_id].password_changed_at = isoformat(t),
                    !.users[user_id].must_change_password = FALSE,
                    !.users[user_id].updated_at = isoformat(t)]
          S2 == _log_action(S1, t, user_id, S1.users[user_id].username,
                    "CHANGE_PASSWORD", "user", user_id, <<>>, "success")
      IN  Return(S2, Result(TRUE, MSG_PASSWORD_CHANGED, None))

\* a reset_password that clears the lock and keeps the counter
reset_password_keeps_counter(S, t, user_id, reset_by, temp_password, salt) ==
    IF get_user(S, user_id) = None
    THEN Return(S, Result(FALSE, MSG_USER_NOT_FOUND, <<>>))
    ELSE
      LET S1 == [S EXCEPT
                    !.users[user_id].password_hash = hash_password(temp_password, salt),
                    !.users[user_id].must_change_password = TRUE,
                    !.users[user_id].is_locked = FALSE,
                    !.users[user_id].updated_at = isoformat(t)]
          S2 == _log_action(S1, t, reset_by, actor_name(S1, reset_by),
                    "RESET_PASSWORD", "user", user_id,
                    [username |-> S1.users[user_id].username], "success")
      IN  Return(S2, Result(TRUE, MSG_PASSWORD_RESET, temp_password))

\* a reset_password that leaves the lock in place
reset_password_keeps_lock(S, t, user_id, reset_by, temp_password, salt) ==
    IF get_user(S, user_id) = None
    THEN Return(S, Result(FALSE, MSG_USER_NOT_FOUND, <<>>))
    ELSE
      LET S1 == [S EXCEPT
                    !.users[user_id].password_hash = hash_password(temp_password, salt),
                    !.users[user_id].must_change_password = TRUE,
                    !.users[user_id].updated_at = isoformat(t)]
          S2 == _log_action(S1, t, reset_by, actor_name(S1, reset_by),
                    "RESET_PASSWORD", "user", user_id,
                    [username |-> S1.users[user_id].username], "success")
      IN  Return(S2, Result(TRUE, MSG_PASSWORD_RESET, temp_password))

\* AuthenticationManager.reset_password; temp_password is what
\* generate_temporary_password drew, salt the salt drawn for its hash
reset_password(S, t, user_id, reset_by, temp_password, salt) ==
    IF get_user(S, user_id) = None
    THEN Return(S, Result(FALSE, MSG_USER_NOT_FOUND, <<>>))
    ELSE
      LET S1 == [S EXCEPT
                    !.users[user_id].password_hash = hash_password(temp_password, salt),
                    !.users[user_id].must_change_password = TRUE,
                    !.users[user_id].failed_login_attempts = 0,
                    !.users[user_id].is_locked = FALSE,
                    !.users[user_id].updated_at = isoformat(t)]
          S2 == _log_action(S1, t, reset_by, actor_name(S1, reset_by),
                    "RESET_PASSWORD", "user", user_id,
                    [username |-> S1.users[user_id].username], "success")
      IN  Return(S2, Result(TRUE, MSG_PASSWORD_RESET, temp_password))

\* an unlock_user that clears the lock and keeps the counter
unlock_user_keeps_counter(S, t, user_id, unlocked_by) ==
    IF get_user(S, user_id) = None
    THEN Return(S, Result(FALSE, MSG_USER_NOT_FOUND, None))
    ELSE
      LET S1 == [S EXCEPT
                    !.users[user_id].is_locked = FALSE,
                    !.users[user_id].updated_at = isoformat(t)]
          S2 == _log_action(S1, t, unlocked_by, actor_name(S1, unlocked_by),
                    "UNLOCK_USER", "user", user_id,
                    [username |-> S1.users[user_id].username], "success")
      IN  Return(S2, Result(TRUE, MSG_USER_UNLOCKED, None))

\* AuthenticationManager.unlock_user
unlock_user(S, t, user_id, unlocked_by) ==
    IF get_user(S, user_id) = None
    THEN Return(S, Result(FALSE, MSG_USER_NOT_FOUND, None))
    ELSE
      LET S1 == [S EXCEPT
                    !.users[user_id].is_locked = FALSE,
                    !.users[user_id].failed_login_attempts = 0,
                    !.users[user_id].updated_at = isoformat(t)]
          S2 == _log_action(S1, t, unlocked_by, actor_name(S1, unlocked_by),
                    "UNLOCK_USER", "user", user_id,
                    [username |-> S1.users[user_id].username], "success")
      IN  Return(S2, Result(TRUE, MSG_USER_UNLOCKED, None))

-----------------------------------------------------------------------------
(* Login                                                                   *)

MSG_INVALID_CREDENTIALS == <<"Invalid username or password">>
MSG_ACCOUNT_DEACTIVATED == <<"Account is deactivated. Contact administrator.">>
MSG_ACCOUNT_IS_LOCKED == <<"Account is locked due to too many failed attempts. Contact administrator.">>
MSG_ACCOUNT_LOCKED == <<"Account locked due to too many failed attempts">>
MSG_LOGIN_SUCCESS == <<"Login successful">>
MSG_LOGIN_SUCCESS_CHANGE_PASSWORD == <<"LOGIN_SUCCESS_CHANGE_PASSWORD">>

\* a threshold test that lets one more attempt through
lock_threshold_passed(attempts) == attempts > MAX_FAILED_ATTEMPTS

\* user.failed_login_attempts >= self.MAX_FAILED_ATTEMPTS
lock_threshold_reached(attempts) == attempts >= MAX_FAILED_ATTEMPTS

\* a login that answers the locking attempt like any other wrong password
failed_password_message_uniform(attempts) == MSG_INVALID_CREDENTIALS

\* what login returns once the password has failed to verify and the counter
\* has been incremented to `attempts`
failed_password_message(attempts) ==
    IF lock_threshold_reached(attempts)
    THEN MSG_ACCOUNT_LOCKED
    ELSE MSG_INVALID_CREDENTIALS

\* a login that tells the caller the username does not exist
unknown_user_message_revealing == MSG_USER_NOT_FOUND

\* what login returns when no user has the username
unknown_user_message == MSG_INVALID_CREDENTIALS

\* the Session dataclass as login fills it in
new_session(t, user, session_id) ==
    [session_id |-> session_id, user_id |-> user.user_id,
     username |-> user.username, role |-> user.role,
     created_at |-> isoformat(t),
     expires_at |-> isoformat(t + SESSION_DURATION_HOURS),
     ip_address |-> "", user_agent |-> "", is_active |-> TRUE,
     last_activity |-> isoformat(t)]

\* login, from the failed verify_password on
login_wrong_password(S, t, user) ==
    LET id == user.user_id
        attempts == user.failed_login_attempts + 1
        S1 == [S EXCEPT !.users[id].failed_login_attempts = attempts]
    IN  IF lock_threshold_reached(attempts)
        THEN Return(_log_action([S1 EXCEPT !.users[id].is_locked = TRUE], t,
                        id, user.username, "ACCOUNT_LOCKED", "user", id,
                        [attempts |-> attempts], "failure"),
                    Result(FALSE, failed_password_message(attempts), None))
        ELSE Return(_log_action(S1, t, id, user.username, "LOGIN_ATTEMPT",
                        "session", <<>>,
                        [reason |-> "invalid_password", attempts |-> attempts],
                        "failure"),
                    Result(FALSE, failed_password_message(attempts), None))

\* a login that stores the session but does not make it the current one
login_success_not_current(S, t, user, session_id) ==
    LET id == user.user_id
        S1 == [S EXCEPT !.users[id].failed_login_attempts = 0,
                        !.users[id].last_login = isoformat(t),
                        !.sessions = put(S.sessions, session_id,
                                         new_session(t, user, session_id))]
        S2 == _log_action(S1, t, id, user.username, "LOGIN", "session",
                  session_id, [ip |-> ""], "success")
    IN  Return(S2, Result(TRUE,
                   IF user.must_change_password
                   THEN MSG_LOGIN_SUCCESS_CHANGE_PASSWORD
                   ELSE MSG_LOGIN_SUCCESS, None))

\* a login that leaves the failed-attempt counter where it was
login_success_keeps_counter(S, t, user, session_id) ==
    LET id == user.user_id
        S1 == [S EXCEPT !.users[id].last_login = isoformat(t),
                        !.sessions = put(S.sessions, session_id,
                                         new_session(t, user, session_id)),
                        !.current_session = session_id]
        S2 == _log_action(S1, t, id, user.username, "LOGIN", "session",
                  session_id, [ip |-> ""], "success")
    IN  Return(S2, Result(TRUE,
                   IF user.must_change_password
                   THEN MSG_LOGIN_SUCCESS_CHANGE_PASSWORD
                   ELSE MSG_LOGIN_SUCCESS, None))

\* a login that answers every success with the plain message
login_success_plain_message(S, t, user, session_id) ==
    LET id == user.user_id
        S1 == [S EXCEPT !.users[id].failed_login_attempts = 0,
                        !.users[id].last_login = isoformat(t),
                        !.sessions = put(S.sessions, session_id,
                                         new_session(t, user, session_id)),
                        !.current_session = session_id]
        S2 == _log_action(S1, t, id, user.username, "LOGIN", "session",
                  session_id, [ip |-> ""], "success")
    IN  Return(S2, Result(TRUE, MSG_LOGIN_SUCCESS, None))

\* login, from the successful verify_password on
login_success(S, t, user, session_id) ==
    LET id == user.user_id
        S1 == [S EXCEPT !.users[id].failed_login_attempts = 0,
                        !.users[id].last_login = isoformat(t),
                        !.sessions = put(S.sessions, session_id,
                                         new_session(t, user, session_id)),
                        !.current_session = session_id]
        S2 == _log_action(S1, t, id, user.username, "LOGIN", "session",
                  session_id, [ip |-> ""], "success")
    IN  Return(S2, Result(TRUE,
                   IF user.must_change_password
                   THEN MSG_LOGIN_SUCCESS_CHANGE_PASSWORD
                   ELSE MSG_LOGIN_SUCCESS, None))

\* a login that tests the lock before the active flag
login_locked_first(S, t, username, password, session_id) ==
    LET user == get_user_by_username(S, username)
    IN  IF user = None
        THEN Return(_log_action(S, t, <<"UNKNOWN">>, username, "LOGIN_ATTEMPT",
                        "session", <<>>, [reason |-> "user_not_found"], "failure"),
                    Result(FALSE, unknown_user_message, None))
        ELSE IF user.is_locked
        THEN Return(S, Result(FALSE, MSG_ACCOUNT_IS_LOCKED, None))
        ELSE IF ~ user.is_active
        THEN Return(S, Result(FALSE, MSG_ACCOUNT_DEACTIVATED, None))
        ELSE IF ~ verify_password(password, user.password_hash)
        THEN login_wrong_password(S, t, user)
        ELSE login_success(S, t, user, session_id)

\* AuthenticationManager.login; session_id is the random token drawn
login(S, t, username, password, session_id) ==
    LET user == get_user_by_username(S, username)
    IN  IF user = None
        THEN Return(_log_action(S, t, <<"UNKNOWN">>, username, "LOGIN_ATTEMPT",
                        "session", <<>>, [reason |-> "user_not_found"], "failure"),
                    Result(FALSE, unknown_user_message, None))
        ELSE IF ~ user.is_active
        THEN Return(S, Result(FALSE, MSG_ACCOUNT_DEACTIVATED, None))
        ELSE IF user.is_locked
        THEN Return(S, Result(FALSE, MSG_ACCOUNT_IS_LOCKED, None))
        ELSE IF ~ verify_password(password, user.password_hash)
        THEN login_wrong_password(S, t, user)
        ELSE login_success(S, t, user, session_id)

-----------------------------------------------------------------------------
(* Authorization                                                           *)

\* set.update(iterable): add the items one by one
RECURSIVE set_update(_, _)
set_update(set, items) ==
    IF items = <<>> THEN set
    ELSE set_update(set \cup {Head(items)}, Tail(items))

\* set(iterable)
to_set(items) == set_update({}, items)

\* a get_user_permissions that removes the denials before it adds the grants
get_user_permissions_denied_first(user) ==
    set_update(role_permissions_get(user.role) \ to_set(user.denied_permissions),
               user.custom_permissions)

\* AuthenticationManager.get_user_permissions: copy the role's set, update()
\* it with the custom list, remove the set of the denied list
get_user_permissions(user) ==
    LET role_perms == role_permissions_get(user.role)
        with_custom == set_update(role_perms, user.custom_permissions)
    IN  with_custom \ to_set(user.denied_permissions)

\* `if user is None: user = self.get_current_user()`: the storage after the
\* lookup (when one is made) and the user the check is about
resolve_user(S, t, user) ==
    IF user = None THEN get_current_user(S, t) ELSE Return(S, user)

\* AuthenticationManager.has_permission
has_permission(S, t, permission, user) ==
    LET R == resolve_user(S, t, user)
    IN  IF R.ret = None THEN Return(R, FALSE)
        ELSE IF ~ R.ret.is_active THEN Return(R, FALSE)
        ELSE Return(R, permission \in get_user_permissions(R.ret))

\* AuthenticationManager.has_any_permission
has_any_permission(S, t, permissions, user) ==
    LET R == resolve_user(S, t, user)
    IN  IF R.ret = None THEN Return(R, FALSE)
        ELSE Return(R, get_user_permissions(R.ret) \cap to_set(permissions) # {})

\* AuthenticationManager.has_all_permissions
has_all_permissions(S, t, permissions, user) ==
    LET R == resolve_user(S, t, user)
    IN  IF R.ret = None THEN Return(R, FALSE)
        ELSE Return(R, \A i \in 1..Len(permissions) :
                           permissions[i] \in get_user_permissions(R.ret))

\* a hierarchy that ranks the manager above the admin
get_hierarchy_manager_first ==
    [r \in Roles |->
        CASE r = SUPER_ADMIN -> 100
          [] r = ADMIN -> 70
          [] r = MANAGER -> 90
          [] r = SENIOR_AGENT -> 50
          [] r = AGENT -> 30
          [] r = VIEWER -> 10]

\* Role.get_hierarchy
get_hierarchy ==
    [r \in Roles |->
        CASE r = SUPER_ADMIN -> 100
          [] r = ADMIN -> 90
          [] r = MANAGER -> 70
          [] r = SENIOR_AGENT -> 50
          [] r = AGENT -> 30
          [] r = VIEWER -> 10]

\* Role.get_level: cls.get_hierarchy().get(role, 0)
get_level(role) ==
    IF role \in DOMAIN get_hierarchy THEN get_hierarchy[role] ELSE 0

\* AuthenticationManager.has_role_or_higher
has_role_or_higher(S, t, role, user) ==
    LET R == resolve_user(S, t, user)
    IN  IF R.ret = None THEN Return(R, FALSE)
        ELSE Return(R, get_level(R.ret.role) >= get_level(role))

\* a can_manage_user that lets peers manage each other
can_manage_user_peers(S, t, target_user, user) ==
    LET R == resolve_user(S, t, user)
    IN  IF R.ret = None THEN Return(R, FALSE)
        ELSE IF R.ret.user_id = target_user.user_id THEN Return(R, FALSE)
        ELSE Return(R, get_level(R.ret.role) >= get_level(target_user.role))

\* AuthenticationManager.can_manage_user
can_manage_user(S, t, target_user, user) ==
    LET R == resolve_user(S, t, user)
    IN  IF R.ret = None THEN Return(R, FALSE)
        ELSE IF R.ret.user_id = target_user.user_id THEN Return(R, FALSE)
        ELSE Return(R, get_level(R.ret.role) > get_level(target_user.role))

-----------------------------------------------------------------------------
(* Construction: _initialize_storage and _create_default_users             *)

salt_token(n) == <<"salt", n>>

\* secrets.token_hex(32): a salt no stored hash uses
fresh_salt(S) ==
    LET used == {S.users[id].password_hash.salt[2] : id \in DOMAIN S.users}
    IN  IF used = {} THEN salt_token(1)
        ELSE salt_token(1 + CHOOSE n \in used : \A m \in used : m <= n)

\* the tokens create_user and login draw next
fresh_user_id(S) == user_token(Cardinality(DOMAIN S.users) + 1)
fresh_session_id(S) == session_token(Cardinality(DOMAIN S.sessions) + 1)

U_admin == <<"a","d","m","i","n">>
U_manager == <<"m","a","n","a","g","e","r">>
U_senior_agent == <<"s","e","n","i","o","r","_","a","g","e","n","t">>
U_agent == <<"a","g","e","n","t">>
U_viewer == <<"v","i","e","w","e","r">>
E_admin == <<"a","d","m","i","n","@","N","D","C","G","e","n","i","e",".","a","i">>
E_manager == <<"m","a","n","a","g","e","r","@","N","D","C","G","e","n","i","e",".","a","i">>
E_senior == <<"s","e","n","i","o","r","@","N","D","C","G","e","n","i","e",".","a","i">>
E_agent == <<"a","g","e","n","t","@","N","D","C","G","e","n","i","e",".","a","i">>
E_viewer == <<"v","i","e","w","e","r","@","N","D","C","G","e","n","i","e",".","a","i">>
P_admin == <<"A","d","m","i","n","@","1","2","3">>
P_manager == <<"M","a","n","a","g","e","r","@","1","2","3">>
P_senior == <<"S","e","n","i","o","r","@","1","2","3">>
P_agent == <<"A","g","e","n","t","@","1","2","3">>
P_viewer == <<"V","i","e","w","e","r","@","1","2","3">>

user_data(username, email, password, role, first_name, last_name, department) ==
    [username |-> username, email |-> email, password |-> password,
     role |-> role, first_name |-> first_name, last_name |-> last_name,
     department |-> department, created_by |-> SYSTEM,
     must_change_password |-> FALSE]

default_users ==
    << user_data(U_admin, E_admin, P_admin, ADMIN, "System", "Administrator", "IT"),
       user_data(U_manager, E_manager, P_manager, MANAGER, "Sarah", "Johnson", "Customer Service"),
       user_data(U_senior_agent, E_senior, P_senior, SENIOR_AGENT, "Michael", "Chen", "Customer Service"),
       user_data(U_agent, E_agent, P_agent, AGENT, "Emily", "Davis", "Customer Service"),
       user_data(U_viewer, E_viewer, P_viewer, VIEWER, "James", "Wilson", "Quality Assurance") >>

\* for user_data in default_users: self.create_user(...), the first n of them
RECURSIVE create_default_users(_, _, _)
create_default_users(S, t, n) ==
    IF n = 0 THEN S
    ELSE LET S1 == create_default_users(S, t, n - 1)
         IN  storage(create_user(S1, t, default_users[n], fresh_user_id(S1), fresh_salt(S1)))

\* AuthenticationManager.__init__ on an empty st.session_state
constructed(t) == create_default_users(empty_storage, t, Len(default_users))

\* the ids construction gives the default users
ADMIN_ID == user_token(1)
\* a user id no user has
GHOST_ID == user_token(99)
AGENT_ID == user_token(4)

-----------------------------------------------------------------------------
(* The calls the model makes                                               *)

U_Agent == <<"A","g","e","n","t">>
U_ghost == <<"g","h","o","s","t">>
U_bob == <<"b","o","b">>
U_ADMIN == <<"A","D","M","I","N">>
U_ab == <<"a","b">>
U_carol == <<"c","a","r","o","l">>
E_bob == <<"b","o","b","@","x",".","c","o","m">>
E_carol == <<"c","a","r","o","l","@","x",".","c","o","m">>
E_ADMIN == <<"A","D","M","I","N","@","n","d","c","g","e","n","i","e",".","A","I">>
P_wrong == <<"W","r","o","n","g","@","9","9","9">>
P_new == <<"N","e","w","P","a","s","s","#","4","2">>
P_bob == <<"B","o","b","b","y","#","2","0","2","4">>
P_temp == <<"T","q","7","#","m","K","2","x","!","L","p","9">>
P_weak == <<"w","e","a","k">>
P_Weak1 == <<"W","e","a","k","1","!">>

\* Bounds
MaxOps == 3
SeedFailures == 4
SeedLogins == 2

LoginInputs ==
    { [username |-> U_Agent, password |-> P_agent],
      [username |-> U_agent, password |-> P_wrong],
      [username |-> U_admin, password |-> P_admin],
      [username |-> U_ghost, password |-> P_agent],
      [username |-> U_agent, password |-> P_temp] }

TickHours == {1, SESSION_DURATION_HOURS}

create_args(username, email, password, role) ==
    [username |-> username, email |-> email, password |-> password,
     role |-> role, first_name |-> "New", last_name |-> "User",
     department |-> "", created_by |-> ADMIN_ID, must_change_password |-> FALSE]

CreateInputs ==
    { create_args(U_bob, E_bob, P_bob, AGENT),
      create_args(U_ADMIN, E_carol, P_bob, AGENT),
      create_args(U_ab, E_ADMIN, P_bob, AGENT),
      create_args(U_carol, E_ADMIN, P_bob, VIEWER),
      [create_args(U_bob, E_bob, P_bob, AGENT) EXCEPT !.created_by = AGENT_ID],
      create_args(U_bob, E_bob, P_Weak1, AGENT) }

UpdateInputs ==
    { [is_active |-> FALSE],
      [email |-> E_ADMIN],
      [custom_permissions |-> <<"approve_refund">>],
      [denied_permissions |-> <<"approve_refund", "view_transactions">>],
      [department |-> "Operations", username |-> U_bob, is_locked |-> TRUE,
       failed_login_attempts |-> 3, must_change_password |-> TRUE,
       password_hash |-> None] }

\* the update_user calls: every kwargs for the agent, one for an unknown id
UpdateCalls ==
    { [user_id |-> AGENT_ID, kwargs |-> kwargs] : kwargs \in UpdateInputs }
      \cup { [user_id |-> GHOST_ID, kwargs |-> [email |-> E_ADMIN]] }

DeleteTargets == {AGENT_ID, ADMIN_ID}
DeleteActors == {ADMIN_ID, AGENT_ID}

ChangeInputs ==
    { [current_password |-> P_agent, new_password |-> P_new],
      [current_password |-> P_agent, new_password |-> P_weak],
      [current_password |-> P_agent, new_password |-> P_agent],
      [current_password |-> P_wrong, new_password |-> P_weak],
      [current_password |-> P_temp, new_password |-> P_new] }

ResetTargets == {AGENT_ID, GHOST_ID}

\* generate_temporary_password: one draw of the twelve characters
TempPasswords == {P_temp}

\* get_audit_log filters; None and "" are filters that are not applied
AuditQueries ==
    { [user_id |-> ADMIN_ID, action |-> "", resource_type |-> "", limit |-> 2],
      [user_id |-> None, action |-> "LOGIN", resource_type |-> "session", limit |-> 2] }

\* the role has_role_or_higher is asked about, the user can_manage_user is
RequiredRoles == {SENIOR_AGENT}
ManageTargets == {AGENT_ID}

PermissionChecks == {"has_permission", "has_any_permission", "has_all_permissions"}
CheckedPermissions == <<"view_transactions">>

-----------------------------------------------------------------------------
(* State machine                                                           *)

State ==
    [users |-> users, sessions |-> sessions,
     current_session |-> current_session, audit_log |-> audit_log]

\* k logins of the agent with a wrong password
RECURSIVE wrong_logins(_, _, _)
wrong_logins(S, t, k) ==
    IF k = 0 THEN S
    ELSE LET S1 == wrong_logins(S, t, k - 1)
         IN  storage(login(S1, t, U_agent, P_wrong, fresh_session_id(S1)))

\* k logins of the agent with the right password
RECURSIVE right_logins(_, _, _)
right_logins(S, t, k) ==
    IF k = 0 THEN S
    ELSE LET S1 == right_logins(S, t, k - 1)
         IN  storage(login(S1, t, U_agent, P_agent, fresh_session_id(S1)))

\* The manager right after construction, or after a first few logins
InitStorages ==
    { constructed(0),
      wrong_logins(constructed(0), 0, SeedFailures),
      right_logins(constructed(0), 0, SeedLogins) }

Init ==
    /\ \E S \in InitStorages :
          /\ users = S.users
          /\ sessions = S.sessions
          /\ current_session = S.current_session
          /\ audit_log = S.audit_log
    /\ now = 0
    /\ last_call = [op |-> "__init__", args |-> <<>>, ret |-> None]
    /\ nops = 0

\* a call of handler `op` with `args` whose outcome is R
Call(op, args, R) ==
    /\ nops < MaxOps
    /\ users' = R.users
    /\ sessions' = R.sessions
    /\ current_session' = R.current_session
    /\ audit_log' = R.audit_log
    /\ last_call' = [op |-> op, args |-> args, ret |-> R.ret]
    /\ nops' = nops + 1
    /\ now' = now

Login ==
    \E a \in LoginInputs :
        Call("login", a, login(State, now, a.username, a.password, fresh_session_id(State)))

Logout == Call("logout", <<>>, logout(State, now))

GetCurrentUser == Call("get_current_user", <<>>, get_current_user(State, now))

CreateUser ==
    \E a \in CreateInputs :
        Call("create_user", a,
             create_user(State, now, a, fresh_user_id(State), fresh_salt(State)))

UpdateUser ==
    \E a \in UpdateCalls :
        Call("update_user", a,
             update_user(State, now, a.user_id, ADMIN_ID, a.kwargs))

DeleteUser ==
    \E id \in DeleteTargets, by \in DeleteActors :
        Call("delete_user", [user_id |-> id, deleted_by |-> by],
             delete_user(State, now, id, by))

ChangePassword ==
    \E a \in ChangeInputs :
        Call("change_password",
             [user_id |-> AGENT_ID, current_password |-> a.current_password,
              new_password |-> a.new_password],
             change_password(State, now, AGENT_ID, a.current_password,
                             a.new_password, fresh_salt(State)))

ResetPassword ==
    \E id \in ResetTargets, temp \in TempPasswords :
        Call("reset_password", [user_id |-> id],
             reset_password(State, now, id, ADMIN_ID, temp, fresh_salt(State)))

UnlockUser ==
    Call("unlock_user", [user_id |-> AGENT_ID],
         unlock_user(State, now, AGENT_ID, ADMIN_ID))

CheckPermission ==
    \E check \in PermissionChecks :
        Call(check, [permissions |-> CheckedPermissions, user |-> None],
             CASE check = "has_permission" ->
                    has_permission(State, now, CheckedPermissions[1], None)
               [] check = "has_any_permission" ->
                    has_any_permission(State, now, CheckedPermissions, None)
               [] check = "has_all_permissions" ->
                    has_all_permissions(State, now, CheckedPermissions, None))

HasRoleOrHigher ==
    \E role \in RequiredRoles :
        Call("has_role_or_higher", [role |-> role, user |-> None],
             has_role_or_higher(State, now, role, None))

CanManageUser ==
    \E id \in ManageTargets :
        Call("can_manage_user", [target_user |-> id, user |-> None],
             can_manage_user(State, now, users[id], None))

GetAuditLog ==
    \E q \in AuditQueries :
        Call("get_audit_log", q,
             get_audit_log(State, q.user_id, q.action, q.resource_type, q.limit))

\* the wall clock advances between two calls
Tick ==
    \E d \in TickHours :
        /\ nops < MaxOps
        /\ now' = now + d
        /\ last_call' = [op |-> "tick", args |-> d, ret |-> None]
        /\ nops' = nops + 1
        /\ UNCHANGED <<users, sessions, current_session, audit_log>>

Next ==
    \/ Login
    \/ Logout
    \/ GetCurrentUser
    \/ CreateUser
    \/ UpdateUser
    \/ DeleteUser
    \/ ChangePassword
    \/ ResetPassword
    \/ UnlockUser
    \/ CheckPermission
    \/ HasRoleOrHigher
    \/ CanManageUser
    \/ GetAuditLog
    \/ Tick

Spec == Init /\ [][Next]_vars

\* Bound: the logins with an unknown username that filled the audit log
AuditFill == 995

\* the entry a login with an unknown username at time t appends
ghost_entry(S, t) ==
    LET R == login(S, t, U_ghost, P_agent, fresh_session_id(S))
    IN  R.audit_log[Len(R.audit_log)]

\* k logins with an unknown username, at times 1..k: each appends its entry
\* and changes nothing else
ghost_logins(S, k) ==
    [S EXCEPT !.audit_log =
        keep_last(S.audit_log \o [i \in 1..k |-> ghost_entry(S, i)], AUDIT_LOG_MAX)]

\* The manager with an audit log one entry short of full, or full
InitAuditFull ==
    /\ \E k \in {AuditFill - 1, AuditFill} :
          LET C == constructed(0)
              S == ghost_logins(C, k)
          IN  /\ users = S.users
              /\ sessions = S.sessions
              /\ current_session = S.current_session
              /\ audit_log = S.audit_log
              /\ now = k
    /\ last_call = [op |-> "__init__", args |-> <<>>, ret |-> None]
    /\ nops = 0

SpecAuditFull == InitAuditFull /\ [][Next]_vars

-----------------------------------------------------------------------------
(* Vocabulary of the properties                                            *)

\* the step just taken is a call of `op`
Called(op) == last_call'.op = op

\* the user a login step is about, looked up before the call
LoginTarget == get_user_by_username(State, last_call'.args.username)

\* a login step that reaches password verification and fails it
WrongPasswordLogin ==
    /\ Called("login")
    /\ LoginTarget # None
    /\ LoginTarget.is_active
    /\ ~ LoginTarget.is_locked
    /\ ~ verify_password(last_call'.args.password, LoginTarget.password_hash)

\* the entry the step just taken appended to the audit log
Appended(entry_action, status) ==
    /\ Len(audit_log') = Len(audit_log) + 1
    /\ SubSeq(audit_log', 1, Len(audit_log)) = audit_log
    /\ audit_log'[Len(audit_log')].action = entry_action
    /\ audit_log'[Len(audit_log')].status = status

LastEntry == audit_log[Len(audit_log)]

-----------------------------------------------------------------------------
(* C1 (as amended): for a user who stays active, wrong-password logins     *)
(* count up from the counter's value, the one that brings the counter to   *)
(* MAX_FAILED_ATTEMPTS locks the account, and the lock stays until         *)
(* unlock_user or reset_password.  Every login for a locked user, the      *)
(* right password included, fails, creates no session and changes nothing; *)
(* its outcome is the account-is-locked message while the user is active   *)
(* and the account-is-deactivated message once the user is deactivated,    *)
(* never InvalidCredentials.                                               *)

C1_CounterStep ==
    \A id \in DOMAIN users :
        LET before == users[id].failed_login_attempts
            after == users'[id].failed_login_attempts
        IN  \/ after = before
            \/ /\ WrongPasswordLogin
               /\ LoginTarget.user_id = id
               /\ after = before + 1
               /\ users'[id].is_locked = (after = MAX_FAILED_ATTEMPTS)
            \/ /\ after = 0
               /\ \/ Called("login") /\ last_call'.ret.ok /\ LoginTarget.user_id = id
                  \/ Called("unlock_user") /\ last_call'.args.user_id = id
                  \/ Called("reset_password") /\ last_call'.args.user_id = id

C1_EveryWrongPasswordCounts ==
    WrongPasswordLogin =>
        users'[LoginTarget.user_id].failed_login_attempts
            = LoginTarget.failed_login_attempts + 1

C1_LockStays ==
    \A id \in DOMAIN users :
        users[id].is_locked /\ ~ users'[id].is_locked =>
            /\ Called("unlock_user") \/ Called("reset_password")
            /\ last_call'.args.user_id = id

C1_LockedLoginFails ==
    Called("login") /\ LoginTarget # None /\ LoginTarget.is_locked =>
        /\ ~ last_call'.ret.ok
        /\ last_call'.ret.msg = IF LoginTarget.is_active
                                THEN MSG_ACCOUNT_IS_LOCKED
                                ELSE MSG_ACCOUNT_DEACTIVATED
        /\ State' = State

C1_LockoutHolds ==
    [][/\ C1_CounterStep
       /\ C1_EveryWrongPasswordCounts
       /\ C1_LockStays
       /\ C1_LockedLoginFails]_vars

\* C1 as stated: whatever else happened to the user, a login for a locked
\* user fails with the account-is-locked outcome
C1_AsStated ==
    [][Called("login") /\ LoginTarget # None /\ LoginTarget.is_locked =>
          /\ ~ last_call'.ret.ok
          /\ last_call'.ret.msg = MSG_ACCOUNT_IS_LOCKED
          /\ sessions' = sessions]_vars

\* the fifth wrong password has locked the agent and a login with the right
\* password has then been refused
C1_Witness ==
    /\ last_call.op = "login"
    /\ last_call.args.username = U_Agent
    /\ verify_password(last_call.args.password, users[AGENT_ID].password_hash)
    /\ last_call.ret.msg = MSG_ACCOUNT_IS_LOCKED
    /\ users[AGENT_ID].is_locked
    /\ users[AGENT_ID].failed_login_attempts = MAX_FAILED_ATTEMPTS
    /\ LastEntry.action = "ACCOUNT_LOCKED"

-----------------------------------------------------------------------------
(* C2 (as amended): a login with an unknown username and a login with a    *)
(* known username and a wrong password that leaves the failed-attempt      *)
(* counter below MAX_FAILED_ATTEMPTS return the identical failure to the   *)
(* caller, (False, "Invalid username or password"); the audit entries      *)
(* differ: a failed LOGIN_ATTEMPT with reason user_not_found for the       *)
(* first, with reason invalid_password for the second.                     *)

C2_UnknownUsername ==
    Called("login") /\ LoginTarget = None =>
        /\ last_call'.ret = Result(FALSE, MSG_INVALID_CREDENTIALS, None)
        /\ Appended("LOGIN_ATTEMPT", "failure")
        /\ audit_log'[Len(audit_log')].details.reason = "user_not_found"

C2_WrongPasswordBelowLimit ==
    WrongPasswordLogin
    /\ LoginTarget.failed_login_attempts + 1 < MAX_FAILED_ATTEMPTS =>
        /\ last_call'.ret = Result(FALSE, MSG_INVALID_CREDENTIALS, None)
        /\ Appended("LOGIN_ATTEMPT", "failure")
        /\ audit_log'[Len(audit_log')].details.reason = "invalid_password"

-----------------------------------------------------------------------------
(* C3 (as amended): a login that fails password verification returns       *)
(* (False, "Invalid username or password") when the incremented counter    *)
(* stays below MAX_FAILED_ATTEMPTS, and (False, "Account locked due to too *)
(* many failed attempts") when the increment reaches the maximum and locks *)
(* the account: the caller can tell the attempt that triggers the lock     *)
(* from the other wrong-password attempts.                                 *)

-----------------------------------------------------------------------------
(* C4: right after a successful login(u, p), is_authenticated() is true    *)
(* and get_current_user() is the user u that logged in; right after        *)
(* logout(), is_authenticated() is false and get_current_user() is None,   *)
(* whatever came before.                                                   *)

IsAuthenticated == is_authenticated(State, now).ret
CurrentUser == get_current_user(State, now).ret

C4_AfterLoginAndLogout ==
    [][/\ Called("login") /\ last_call'.ret.ok =>
            /\ IsAuthenticated'
            /\ CurrentUser' # None
            /\ CurrentUser' = users'[LoginTarget.user_id]
            /\ lower(CurrentUser'.username) = lower(last_call'.args.username)
       /\ Called("logout") =>
            /\ ~ IsAuthenticated'
            /\ CurrentUser' = None]_vars

\* the admin has logged in over the agent's sessions and is the current user
C4_Witness ==
    /\ last_call.op = "login"
    /\ last_call.ret.ok
    /\ last_call.args.username = U_admin
    /\ IsAuthenticated
    /\ CurrentUser # None
    /\ CurrentUser.user_id = ADMIN_ID
    /\ \E sid \in DOMAIN sessions :
          sessions[sid].user_id = AGENT_ID /\ sessions[sid].is_active

-----------------------------------------------------------------------------
(* C5: a session lookup returns a session only if the session is active    *)
(* and now < expires_at; a lookup at now >= expires_at, now = expires_at   *)
(* included, returns None, marks the session inactive and clears the       *)
(* current-session reference.                                              *)

\* the current session, when the reference names an active session of the store
LiveSession ==
    IF /\ current_session # None
       /\ current_session \in DOMAIN sessions
       /\ sessions[current_session].is_active
    THEN sessions[current_session]
    ELSE None

C5_ExpiredAtExpiry ==
    [][/\ Called("get_current_user")
       /\ LiveSession # None
       /\ now >= fromisoformat(LiveSession.expires_at)
       => /\ last_call'.ret = None
          /\ ~ sessions'[current_session].is_active
          /\ current_session' = None]_vars

-----------------------------------------------------------------------------
(* C6: after a successful delete_user(user_id, actor) the user is inactive *)
(* and every session of the store owned by user_id is inactive, so that    *)
(* none of them resolves to an authenticated user any more; a DELETE_USER  *)
(* audit entry is appended.                                                *)

\* what a caller holding session token sid gets from a lookup
ResolvesTo(sid) ==
    get_current_user([State EXCEPT !.current_session = sid], now).ret

C6_DeleteInvalidatesSessions ==
    [][Called("delete_user") /\ last_call'.ret.ok =>
          LET id == last_call'.args.user_id
          IN  /\ ~ users'[id].is_active
              /\ DOMAIN sessions' = DOMAIN sessions
              /\ \A sid \in DOMAIN sessions' :
                    sessions'[sid].user_id = id =>
                        /\ ~ sessions'[sid].is_active
                        /\ ResolvesTo(sid)' = None
              /\ Appended("DELETE_USER", "success")
              /\ audit_log'[Len(audit_log')].resource_id = id
              /\ audit_log'[Len(audit_log')].user_id = last_call'.args.deleted_by]_vars

\* the agent logged in twice and nobody logged out; the admin's delete_user
\* has invalidated both sessions
C6_Witness ==
    /\ last_call.op = "delete_user"
    /\ last_call.ret.ok
    /\ last_call.args.user_id = AGENT_ID
    /\ Cardinality({sid \in DOMAIN sessions : sessions[sid].user_id = AGENT_ID}) >= 2
    /\ \A sid \in DOMAIN sessions :
          sessions[sid].user_id = AGENT_ID => ~ sessions[sid].is_active
    /\ \A i \in 1..Len(audit_log) : audit_log[i].action # "LOGOUT"
    /\ now < SESSION_DURATION_HOURS
    /\ LastEntry.action = "DELETE_USER"

-----------------------------------------------------------------------------
(* C7: in every reachable state no two distinct users have the same        *)
(* username, compared case-insensitively, and no two have the same email,  *)
(* compared case-insensitively.                                            *)

C7_UniqueUsernameAndEmail ==
    \A a, b \in DOMAIN users :
        a # b =>
            /\ lower(users[a].username) # lower(users[b].username)
            /\ lower(users[a].email) # lower(users[b].email)

-----------------------------------------------------------------------------
(* C8 (as amended): create_user with a username that equals an existing    *)
(* user's username up to case fails with "Username already exists";        *)
(* create_user with an email that equals an existing user's email up to    *)
(* case fails too, with "Email already registered" when the username is    *)
(* well formed and unused and the email is well formed, and with the       *)
(* username's or the email format's error otherwise.  A failed create_user *)
(* leaves the user directory and the audit log unchanged.                  *)

DuplicateUsername(username) ==
    \E id \in DOMAIN users : lower(users[id].username) = lower(username)

DuplicateEmail(email) ==
    \E id \in DOMAIN users : lower(users[id].email) = lower(email)

-----------------------------------------------------------------------------
(* C9: get_user_permissions(user) is (ROLE_PERMISSIONS[user.role] union    *)
(* custom_permissions) minus denied_permissions: a denied permission is    *)
(* absent even when the role grants it or custom_permissions lists it.     *)

C9_EffectivePermissions ==
    \A id \in DOMAIN users :
        LET user == users[id]
            listed == Range(user.custom_permissions) \cup Range(user.denied_permissions)
        IN  \A p \in Permission \cup listed :
                p \in get_user_permissions(user) <=>
                    /\ \/ p \in ROLE_PERMISSIONS[user.role]
                       \/ \E i \in 1..Len(user.custom_permissions) :
                             user.custom_permissions[i] = p
                    /\ ~ \E i \in 1..Len(user.denied_permissions) :
                             user.denied_permissions[i] = p

\* the agent has been granted approve_refund and then denied it, together
\* with view_transactions, which the Agent role grants
C9_Witness ==
    LET user == users[AGENT_ID]
    IN  /\ "approve_refund" \in Range(user.custom_permissions)
        /\ "approve_refund" \in Range(user.denied_permissions)
        /\ "view_transactions" \in Range(user.denied_permissions)
        /\ "view_transactions" \in ROLE_PERMISSIONS[user.role]
        /\ "approve_refund" \notin get_user_permissions(user)
        /\ "view_transactions" \notin get_user_permissions(user)
        /\ "edit_transactions" \in get_user_permissions(user)

-----------------------------------------------------------------------------
(* C10: has_permission, has_any_permission and has_all_permissions each    *)
(* return false when there is no current user (and no user is given) or    *)
(* when the user checked has is_active = false, whatever the permission,   *)
(* the role, the custom grants and the denials.                            *)

C10_DeniedWithoutActiveUser ==
    /\ \A id \in DOMAIN users : \A p \in Permission :
          ~ users[id].is_active =>
              /\ ~ has_permission(State, now, p, users[id]).ret
              /\ ~ has_any_permission(State, now, <<p>>, users[id]).ret
              /\ ~ has_all_permissions(State, now, <<p>>, users[id]).ret
    /\ \A p \in Permission :
          CurrentUser = None \/ ~ CurrentUser.is_active =>
              /\ ~ has_permission(State, now, p, None).ret
              /\ ~ has_any_permission(State, now, <<p>>, None).ret
              /\ ~ has_all_permissions(State, now, <<p>>, None).ret

-----------------------------------------------------------------------------
(* C11: delete_user(user_id, deleted_by) with deleted_by = user_id fails    *)
(* with "Cannot delete your own account", whichever user owns the current  *)
(* session and also when nobody is logged in; on that failure the target   *)
(* keeps its active flag, none of its sessions is invalidated and no       *)
(* DELETE_USER entry is appended to the audit log.                         *)

C11_SelfDeleteRefused ==
    [][/\ Called("delete_user")
       /\ last_call'.args.deleted_by = last_call'.args.user_id
       /\ get_user(State, last_call'.args.user_id) # None
       => LET id == last_call'.args.user_id
          IN  /\ last_call'.ret = Result(FALSE, MSG_CANNOT_DELETE_SELF, None)
              /\ users'[id].is_active = users[id].is_active
              /\ \A sid \in DOMAIN sessions :
                    sessions[sid].user_id = id /\ sessions[sid].is_active =>
                        sessions'[sid].is_active
              /\ audit_log' = audit_log]_vars

-----------------------------------------------------------------------------
(* C12: create_user called with created_by naming a user whose effective   *)
(* permissions do not include create_users fails and adds no user to the   *)
(* directory.                                                              *)

C12_CreateNeedsPermission ==
    [][/\ Called("create_user")
       /\ get_user(State, last_call'.args.created_by) # None
       /\ "create_users" \notin
              get_user_permissions(get_user(State, last_call'.args.created_by))
       => /\ ~ last_call'.ret.ok
          /\ users' = users]_vars

-----------------------------------------------------------------------------
(* C13: every login that does not succeed (unknown username, deactivated   *)
(* account, locked account, wrong password) appends, in the same call, an  *)
(* audit log entry whose status is failure or denied.                      *)

C13_FailedLoginAudited ==
    [][Called("login") /\ ~ last_call'.ret.ok =>
          /\ Len(audit_log') = Len(audit_log) + 1
          /\ SubSeq(audit_log', 1, Len(audit_log)) = audit_log
          /\ audit_log'[Len(audit_log')].status \in {"failure", "denied"}]_vars

-----------------------------------------------------------------------------
(* C14: login for a deactivated user returns "Account is deactivated",     *)
(* locked or not; login for an active, locked user returns "Account is     *)
(* locked"; both whatever the password, the right one included, so the     *)
(* active flag is tested before the lock and both before the password.     *)
(* The refused call leaves the users (failed-attempt counter included),    *)
(* the session store and the current-session reference unchanged.          *)

C14_DisabledAndLockedRefused ==
    [][Called("login") /\ LoginTarget # None =>
          /\ ~ LoginTarget.is_active =>
                /\ last_call'.ret = Result(FALSE, MSG_ACCOUNT_DEACTIVATED, None)
                /\ users' = users
                /\ sessions' = sessions
                /\ current_session' = current_session
          /\ LoginTarget.is_active /\ LoginTarget.is_locked =>
                /\ last_call'.ret = Result(FALSE, MSG_ACCOUNT_IS_LOCKED, None)
                /\ users' = users
                /\ sessions' = sessions
                /\ current_session' = current_session]_vars

\* the agent, locked and then deactivated, has offered the right password
\* and been told the account is deactivated
C14_Witness ==
    /\ last_call.op = "login"
    /\ last_call.args.username = U_Agent
    /\ verify_password(last_call.args.password, users[AGENT_ID].password_hash)
    /\ last_call.ret = Result(FALSE, MSG_ACCOUNT_DEACTIVATED, None)
    /\ users[AGENT_ID].is_locked
    /\ ~ users[AGENT_ID].is_active
    /\ users[AGENT_ID].failed_login_attempts = MAX_FAILED_ATTEMPTS

-----------------------------------------------------------------------------
(* C15: a successful login sets the user's failed-attempt counter to 0 and *)
(* last_login to the time of the call, adds exactly one session to the     *)
(* store, active, owned by the user, created now and expiring              *)
(* SESSION_DURATION_HOURS later, makes it the current session and appends  *)
(* a LOGIN entry with status success; the next wrong password for the      *)
(* user brings the counter to 1, whatever it was before the login.         *)

C15_SuccessfulLogin ==
    [][Called("login") /\ last_call'.ret.ok =>
          LET id == LoginTarget.user_id
              added == DOMAIN sessions' \ DOMAIN sessions
              again == login(State', now', last_call'.args.username, P_wrong,
                             fresh_session_id(State'))
          IN  /\ users'[id].failed_login_attempts = 0
              /\ users'[id].last_login = isoformat(now)
              /\ Cardinality(added) = 1
              /\ \A sid \in DOMAIN sessions : sessions'[sid] = sessions[sid]
              /\ \A sid \in added :
                    /\ sessions'[sid].is_active
                    /\ sessions'[sid].user_id = id
                    /\ sessions'[sid].created_at = isoformat(now)
                    /\ fromisoformat(sessions'[sid].expires_at)
                          = now + SESSION_DURATION_HOURS
                    /\ current_session' = sid
              /\ Appended("LOGIN", "success")
              /\ audit_log'[Len(audit_log')].user_id = id
              /\ ~ again.ret.ok
              /\ again.users[id].failed_login_attempts = 1]_vars

\* four wrong passwords, then the right one: the agent's counter is back
\* at 0 and the new session is the current one
C15_Witness ==
    /\ last_call.op = "login"
    /\ last_call.ret.ok
    /\ last_call.args.username = U_Agent
    /\ Len(audit_log) >= SeedFailures + 1
    /\ audit_log[Len(audit_log) - 1].action = "LOGIN_ATTEMPT"
    /\ audit_log[Len(audit_log) - 1].details.reason = "invalid_password"
    /\ audit_log[Len(audit_log) - 1].details.attempts = MAX_FAILED_ATTEMPTS - 1
    /\ LastEntry.action = "LOGIN"
    /\ users[AGENT_ID].failed_login_attempts = 0
    /\ current_session # None
    /\ sessions[current_session].user_id = AGENT_ID

-----------------------------------------------------------------------------
(* C16: a successful login returns LOGIN_SUCCESS_CHANGE_PASSWORD when the  *)
(* user's must_change_password flag is set and "Login successful" when it  *)
(* is clear, two different messages; a set flag is cleared by nothing but  *)
(* a successful change_password for that user.                             *)

C16_ChangePasswordSignal ==
    [][/\ Called("login") /\ last_call'.ret.ok =>
            /\ last_call'.ret.msg = IF LoginTarget.must_change_password
                                    THEN MSG_LOGIN_SUCCESS_CHANGE_PASSWORD
                                    ELSE MSG_LOGIN_SUCCESS
            /\ (last_call'.ret.msg = MSG_LOGIN_SUCCESS)
                  <=> ~ LoginTarget.must_change_password
            /\ users'[LoginTarget.user_id].must_change_password
                  = LoginTarget.must_change_password
       /\ \A id \in DOMAIN users :
            users[id].must_change_password /\ ~ users'[id].must_change_password =>
                /\ Called("change_password")
                /\ last_call'.args.user_id = id
                /\ last_call'.ret.ok]_vars

\* the agent, whose password was reset, has logged in with the temporary
\* password: the login asks for a password change and the flag is still set
C16_Witness ==
    /\ last_call.op = "login"
    /\ last_call.args.password = P_temp
    /\ last_call.ret = Result(TRUE, MSG_LOGIN_SUCCESS_CHANGE_PASSWORD, None)
    /\ users[AGENT_ID].must_change_password
    /\ current_session # None
    /\ sessions[current_session].user_id = AGENT_ID

-----------------------------------------------------------------------------
(* C17: logout returns normally and clears the current-session reference.  *)
(* When the reference names a session of the store, logout marks exactly   *)
(* that session inactive and appends one LOGOUT entry; when there is no    *)
(* current session it changes no session and appends nothing.  A second    *)
(* logout right after the first leaves the state the first one left.       *)

C17_LogoutIdempotent ==
    [][Called("logout") =>
          /\ last_call'.ret = TRUE
          /\ current_session' = None
          /\ users' = users
          /\ IF current_session # None /\ current_session \in DOMAIN sessions
             THEN /\ sessions' = [sessions EXCEPT ![current_session].is_active = FALSE]
                  /\ Appended("LOGOUT", "success")
                  /\ audit_log'[Len(audit_log')].resource_id = current_session
             ELSE /\ sessions' = sessions
                  /\ audit_log' = audit_log
          /\ logout(State', now') = Return(State', TRUE)]_vars

\* the agent logged out, time passed, and a second logout has returned
\* without adding to the audit log
C17_Witness ==
    /\ last_call.op = "logout"
    /\ last_call.ret = TRUE
    /\ current_session = None
    /\ LastEntry.action = "LOGOUT"
    /\ fromisoformat(LastEntry.timestamp) < now
    /\ Cardinality({i \in 1..Len(audit_log) : audit_log[i].action = "LOGOUT"}) = 1

-----------------------------------------------------------------------------
(* C18: change_password for an existing user returns "Current password is  *)
(* incorrect" when the current password does not verify, weak new password *)
(* or not; returns the list of violated strength rules when the current    *)
(* password verifies and the new one is weak; both failures leave the      *)
(* stored hash, the must_change_password flag and the audit log unchanged. *)
(* Otherwise it succeeds: the new password verifies against the stored     *)
(* hash, the old one no longer does unless the two are equal, the flag is  *)
(* clear and a CHANGE_PASSWORD entry is appended.                          *)

C18_ChangePassword ==
    [][Called("change_password") /\ get_user(State, last_call'.args.user_id) # None =>
          LET a == last_call'.args
              ret == last_call'.ret
              before == users[a.user_id]
              after == users'[a.user_id]
              current_ok == verify_password(a.current_password, before.password_hash)
              weak == password_errors(a.new_password) # <<>>
          IN  /\ ~ current_ok =>
                    ret = Result(FALSE, MSG_CURRENT_PASSWORD_INCORRECT, None)
              /\ current_ok /\ weak =>
                    /\ ret = Result(FALSE, password_errors(a.new_password), None)
                    /\ ret.msg # MSG_CURRENT_PASSWORD_INCORRECT
              /\ ~ current_ok \/ weak =>
                    /\ after.password_hash = before.password_hash
                    /\ after.must_change_password = before.must_change_password
                    /\ audit_log' = audit_log
              /\ current_ok /\ ~ weak =>
                    /\ ret.ok
                    /\ verify_password(a.new_password, after.password_hash)
                    /\ a.new_password # a.current_password =>
                          ~ verify_password(a.current_password, after.password_hash)
                    /\ ~ after.must_change_password
                    /\ Appended("CHANGE_PASSWORD", "success")
                    /\ audit_log'[Len(audit_log')].resource_id = a.user_id]_vars

\* after a reset, a change_password with a wrong current password and a
\* weak new one has been refused for the current password; the temporary
\* password and the flag are still in place
C18_Witness ==
    /\ last_call.op = "change_password"
    /\ last_call.args.current_password = P_wrong
    /\ password_errors(last_call.args.new_password) # <<>>
    /\ last_call.ret = Result(FALSE, MSG_CURRENT_PASSWORD_INCORRECT, None)
    /\ users[AGENT_ID].must_change_password
    /\ verify_password(P_temp, users[AGENT_ID].password_hash)
    /\ LastEntry.action = "RESET_PASSWORD"

-----------------------------------------------------------------------------
(* C19 (as amended): reset_password on an existing user stores the hash of *)
(* the temporary password it returns, sets must_change_password, clears    *)
(* the lock and the failed-attempt counter and appends a RESET_PASSWORD    *)
(* entry none of whose fields holds the temporary password.  A login with  *)
(* the temporary password right after it succeeds with                     *)
(* LOGIN_SUCCESS_CHANGE_PASSWORD when the user is active and is refused    *)
(* with "Account is deactivated" when the user is not.  On an unknown user *)
(* id reset_password fails and changes nothing.                            *)

\* the login of the user `id` with `password` in the state after the step
LoginAfter(id, password) ==
    login(State', now', users'[id].username, password, fresh_session_id(State'))

C19_ResetEffects ==
    Called("reset_password") /\ get_user(State, last_call'.args.user_id) # None =>
        LET id == last_call'.args.user_id
            ret == last_call'.ret
            entry == audit_log'[Len(audit_log')]
        IN  /\ ret.ok
            /\ ret.value # <<>>
            /\ users'[id].password_hash = hash_password(ret.value, users'[id].password_hash.salt)
            /\ verify_password(ret.value, users'[id].password_hash)
            /\ users'[id].must_change_password
            /\ ~ users'[id].is_locked
            /\ users'[id].failed_login_attempts = 0
            /\ users'[id].is_active = users[id].is_active
            /\ Appended("RESET_PASSWORD", "success")
            /\ entry.resource_id = id
            /\ entry.username # ret.value
            /\ DOMAIN entry.details = {"username"}
            /\ entry.details.username # ret.value

C19_ResetUnknownUser ==
    Called("reset_password") /\ get_user(State, last_call'.args.user_id) = None =>
        /\ ~ last_call'.ret.ok
        /\ State' = State

C19_ResetPassword ==
    [][/\ C19_ResetEffects
       /\ C19_ResetUnknownUser
       /\ Called("reset_password") /\ get_user(State, last_call'.args.user_id) # None =>
            LET id == last_call'.args.user_id
            IN  LoginAfter(id, last_call'.ret.value).ret
                  = IF users'[id].is_active
                    THEN Result(TRUE, MSG_LOGIN_SUCCESS_CHANGE_PASSWORD, None)
                    ELSE Result(FALSE, MSG_ACCOUNT_DEACTIVATED, None)]_vars

\* C19 as stated: after reset_password on any existing user a login with
\* the temporary password succeeds
C19_AsStated ==
    [][/\ C19_ResetEffects
       /\ C19_ResetUnknownUser
       /\ Called("reset_password") /\ get_user(State, last_call'.args.user_id) # None =>
            LoginAfter(last_call'.args.user_id, last_call'.ret.value).ret
                = Result(TRUE, MSG_LOGIN_SUCCESS_CHANGE_PASSWORD, None)]_vars

\* the agent was locked by a fifth wrong password; the reset has unlocked
\* the account and the temporary password logs in
C19_Witness ==
    /\ last_call.op = "reset_password"
    /\ last_call.ret.ok
    /\ last_call.args.user_id = AGENT_ID
    /\ Len(audit_log) >= 2
    /\ audit_log[Len(audit_log) - 1].action = "ACCOUNT_LOCKED"
    /\ LastEntry.action = "RESET_PASSWORD"
    /\ users[AGENT_ID].is_active
    /\ ~ users[AGENT_ID].is_locked
    /\ users[AGENT_ID].failed_login_attempts = 0
    /\ login(State, now, U_agent, last_call.ret.value, fresh_session_id(State)).ret
          = Result(TRUE, MSG_LOGIN_SUCCESS_CHANGE_PASSWORD, None)

-----------------------------------------------------------------------------
(* C20 (as amended): unlock_user on an existing user clears the lock, sets *)
(* the failed-attempt counter to 0 and appends an UNLOCK_USER entry; it    *)
(* leaves the password hash, the active flag and every session unchanged.  *)
(* When the user is active, a login with the correct password right after  *)
(* it succeeds, four consecutive wrong passwords leave the account         *)
(* unlocked and the fifth locks it again.                                  *)

\* the passwords a user of the model can have
KnownPasswords == {P_admin, P_agent, P_new, P_temp}

\* the storage after k consecutive wrong-password logins of `username`
RECURSIVE FailedLogins(_, _, _, _)
FailedLogins(S, t, username, k) ==
    IF k = 0 THEN S
    ELSE LET S1 == FailedLogins(S, t, username, k - 1)
         IN  storage(login(S1, t, username, P_wrong, fresh_session_id(S1)))

C20_UnlockEffects ==
    Called("unlock_user") /\ get_user(State, last_call'.args.user_id) # None =>
        LET id == last_call'.args.user_id
        IN  /\ last_call'.ret.ok
            /\ ~ users'[id].is_locked
            /\ users'[id].failed_login_attempts = 0
            /\ Appended("UNLOCK_USER", "success")
            /\ audit_log'[Len(audit_log')].resource_id = id
            /\ users'[id].password_hash = users[id].password_hash
            /\ users'[id].is_active = users[id].is_active
            /\ sessions' = sessions
            /\ current_session' = current_session

C20_LoginAndRelock(id) ==
    /\ \E p \in KnownPasswords : verify_password(p, users'[id].password_hash)
    /\ \A p \in KnownPasswords :
          verify_password(p, users'[id].password_hash) => LoginAfter(id, p).ret.ok
    /\ \A k \in 0..(MAX_FAILED_ATTEMPTS - 1) :
          LET S == FailedLogins(State', now', users'[id].username, k)
          IN  /\ ~ S.users[id].is_locked
              /\ S.users[id].failed_login_attempts = k
    /\ FailedLogins(State', now', users'[id].username, MAX_FAILED_ATTEMPTS).users[id].is_locked

C20_UnlockUser ==
    [][/\ C20_UnlockEffects
       /\ /\ Called("unlock_user")
          /\ get_user(State, last_call'.args.user_id) # None
          /\ users'[last_call'.args.user_id].is_active
          => C20_LoginAndRelock(last_call'.args.user_id)]_vars

\* C20 as stated: after unlock_user on any existing user the correct
\* password logs in and five wrong passwords lock the account again
C20_AsStated ==
    [][/\ C20_UnlockEffects
       /\ Called("unlock_user") /\ get_user(State, last_call'.args.user_id) # None
          => C20_LoginAndRelock(last_call'.args.user_id)]_vars

\* the agent was locked by a fifth wrong password and has been unlocked
C20_Witness ==
    /\ last_call.op = "unlock_user"
    /\ last_call.ret.ok
    /\ Len(audit_log) >= 2
    /\ audit_log[Len(audit_log) - 1].action = "ACCOUNT_LOCKED"
    /\ LastEntry.action = "UNLOCK_USER"
    /\ users[AGENT_ID].is_active
    /\ ~ users[AGENT_ID].is_locked
    /\ users[AGENT_ID].failed_login_attempts = 0
    /\ login(State, now, U_agent, P_agent, fresh_session_id(State)).ret.ok
    /\ FailedLogins(State, now, U_agent, MAX_FAILED_ATTEMPTS).users[AGENT_ID].is_locked

-----------------------------------------------------------------------------
(* C21 (as amended): update_user on an unknown user id returns "User not   *)
(* found" and changes nothing, the audit log included.  On a known id it   *)
(* succeeds, sets each passed field of the allow-list to the passed value, *)
(* sets updated_at, and changes nothing else: passed fields outside the    *)
(* allow-list are ignored, the username, the password hash, is_locked, the *)
(* failed-attempt counter and must_change_password keep their values, and  *)
(* the other users and the sessions are untouched.                         *)

C21_UnknownUser ==
    Called("update_user") /\ get_user(State, last_call'.args.user_id) = None =>
        /\ last_call'.ret = Result(FALSE, MSG_USER_NOT_FOUND, None)
        /\ State' = State

C21_KnownUser(also_changed) ==
    Called("update_user") /\ get_user(State, last_call'.args.user_id) # None =>
        LET id == last_call'.args.user_id
            kwargs == last_call'.args.kwargs
            passed == DOMAIN kwargs \cap allowed_fields
        IN  /\ last_call'.ret.ok
            /\ DOMAIN users' = DOMAIN users
            /\ \A o \in DOMAIN users \ {id} : users'[o] = users[o]
            /\ \A f \in passed : users'[id][f] = kwargs[f]
            /\ \A f \in DOMAIN users[id] \ (passed \cup also_changed) :
                  users'[id][f] = users[id][f]
            /\ users'[id].username = users[id].username
            /\ users'[id].password_hash = users[id].password_hash
            /\ users'[id].is_locked = users[id].is_locked
            /\ users'[id].failed_login_attempts = users[id].failed_login_attempts
            /\ users'[id].must_change_password = users[id].must_change_password
            /\ sessions' = sessions
            /\ current_session' = current_session
            /\ Appended("UPDATE_USER", "success")

C21_UpdateFrame ==
    [][C21_UnknownUser /\ C21_KnownUser({"updated_at"})]_vars

\* C21 as stated: nothing but the passed allow-listed fields changes
C21_AsStated ==
    [][C21_UnknownUser /\ C21_KnownUser({})]_vars

\* an update of the agent that passed one allow-listed field and five
\* others has changed the department and left the others alone
C21_Witness ==
    /\ last_call.op = "update_user"
    /\ last_call.ret.ok
    /\ last_call.args.user_id = AGENT_ID
    /\ "is_locked" \in DOMAIN last_call.args.kwargs
    /\ last_call.args.kwargs.is_locked
    /\ ~ users[AGENT_ID].is_locked
    /\ users[AGENT_ID].department = last_call.args.kwargs.department
    /\ users[AGENT_ID].username = U_agent
    /\ LastEntry.action = "UPDATE_USER"
    /\ DOMAIN LastEntry.details = {"department"}

-----------------------------------------------------------------------------
(* C22: the audit log never holds more than AUDIT_LOG_MAX (1000) entries.  *)
(* A call that audits appends one entry at the end: the entries already    *)
(* there keep their content and their order, and when the log was full the *)
(* oldest entry, the first, is the one dropped.  Every other step, reading *)
(* the log with get_audit_log included, leaves the log as it is.           *)

\* the step is a call that writes an audit entry
C22_Audited ==
    \/ /\ last_call'.op \in {"create_user", "update_user", "delete_user",
                              "change_password", "reset_password", "unlock_user"}
       /\ last_call'.ret.ok
    \/ /\ Called("login")
       /\ \/ LoginTarget = None
          \/ LoginTarget.is_active /\ ~ LoginTarget.is_locked
    \/ Called("logout") /\ current_session # None

C22_OneAppended ==
    LET dropped == IF Len(audit_log) = AUDIT_LOG_MAX THEN 1 ELSE 0
    IN  /\ Len(audit_log') = Len(audit_log) + 1 - dropped
        /\ \A i \in 1..(Len(audit_log) - dropped) :
              audit_log'[i] = audit_log[i + dropped]
        /\ audit_log'[Len(audit_log')].timestamp = isoformat(now)

C22_AuditLogCapped ==
    /\ Len(audit_log) <= AUDIT_LOG_MAX
    /\ [][/\ Len(audit_log') <= AUDIT_LOG_MAX
          /\ IF C22_Audited THEN C22_OneAppended ELSE audit_log' = audit_log]_vars

\* the full log has taken two more entries: the first two CREATE_USER
\* entries of construction are gone, the third is now the oldest
C22_Witness ==
    /\ Len(audit_log) = AUDIT_LOG_MAX
    /\ audit_log[1].action = "CREATE_USER"
    /\ audit_log[1].resource_id = user_token(3)
    /\ audit_log[Len(audit_log) - 2].action = "LOGIN_ATTEMPT"
    /\ audit_log[Len(audit_log) - 2].username = U_ghost
    /\ audit_log[Len(audit_log) - 1].action # "LOGIN_ATTEMPT"
    /\ fromisoformat(LastEntry.timestamp) >= fromisoformat(audit_log[Len(audit_log) - 1].timestamp)

-----------------------------------------------------------------------------
(* C23: can_manage_user(target, actor) is true exactly when actor and      *)
(* target are different users and the actor's role level is strictly       *)
(* greater than the target's: false for the same user, for peers and for a *)
(* lower-ranked actor.  With no actor given the current user is the actor, *)
(* and the answer is false when nobody is logged in.                       *)

C23_CanManage ==
    /\ \A actor, target \in DOMAIN users :
          can_manage_user(State, now, users[target], users[actor]).ret
              = /\ actor # target
                /\ get_level(users[actor].role) > get_level(users[target].role)
    /\ \A actor, target \in DOMAIN users :
          /\ actor = target => ~ can_manage_user(State, now, users[target], users[actor]).ret
          /\ users[actor].role = users[target].role =>
                ~ can_manage_user(State, now, users[target], users[actor]).ret
          /\ can_manage_user(State, now, users[target], users[actor]).ret =>
                ~ can_manage_user(State, now, users[actor], users[target]).ret
    /\ \A target \in DOMAIN users :
          can_manage_user(State, now, users[target], None).ret
              = IF CurrentUser = None THEN FALSE
                ELSE can_manage_user(State, now, users[target], CurrentUser).ret
    /\ can_manage_user(State, now, users[user_token(2)], users[ADMIN_ID]).ret
    /\ ~ can_manage_user(State, now, users[ADMIN_ID], users[user_token(2)]).ret
    /\ last_call.op = "can_manage_user" =>
          \/ ~ last_call.ret
          \/ /\ CurrentUser # None
             /\ CurrentUser.user_id # last_call.args.target_user
             /\ get_level(CurrentUser.role)
                   > get_level(users[last_call.args.target_user].role)

\* with a second agent in the directory the admin has logged in and been
\* told it can manage the agent; the two agents cannot manage each other
C23_Witness ==
    /\ last_call.op = "can_manage_user"
    /\ last_call.ret
    /\ CurrentUser # None
    /\ CurrentUser.user_id = ADMIN_ID
    /\ \E id \in DOMAIN users :
          /\ id # AGENT_ID
          /\ users[id].role = users[AGENT_ID].role
          /\ ~ can_manage_user(State, now, users[id], users[AGENT_ID]).ret
          /\ ~ can_manage_user(State, now, users[AGENT_ID], users[id]).ret

-----------------------------------------------------------------------------
(* C24: the role levels order the roles strictly, Viewer < Agent < Senior  *)
(* Agent < Manager < Admin < Super Admin; has_role_or_higher(role, user)   *)
(* is true exactly when the user's role is `role` or comes after it in     *)
(* that order; with no user given and nobody logged in it is false.        *)

RoleOrder == <<VIEWER, AGENT, SENIOR_AGENT, MANAGER, ADMIN, SUPER_ADMIN>>

\* the place of a role in RoleOrder
Rank(role) == CHOOSE i \in 1..Len(RoleOrder) : RoleOrder[i] = role

C24_RoleOrder ==
    /\ Range(RoleOrder) = Roles
    /\ \A i, j \in 1..Len(RoleOrder) :
          i < j <=> get_level(RoleOrder[i]) < get_level(RoleOrder[j])
    /\ \A id \in DOMAIN users, role \in Roles :
          has_role_or_higher(State, now, role, users[id]).ret
              = (Rank(users[id].role) >= Rank(role))
    /\ \A role \in Roles :
          has_role_or_higher(State, now, role, None).ret
              = IF CurrentUser = None THEN FALSE
                ELSE Rank(CurrentUser.role) >= Rank(role)
    /\ last_call.op = "has_role_or_higher" =>
          last_call.ret = /\ CurrentUser # None
                          /\ Rank(CurrentUser.role) >= Rank(last_call.args.role)

\* the agent is logged in and has been refused the senior agent's rank
C24_Witness ==
    /\ last_call.op = "has_role_or_higher"
    /\ ~ last_call.ret
    /\ CurrentUser # None
    /\ CurrentUser.role = AGENT
    /\ last_call.args.role = SENIOR_AGENT
    /\ has_role_or_higher(State, now, AGENT, None).ret
    /\ has_role_or_higher(State, now, VIEWER, None).ret
    /\ ~ has_role_or_higher(State, now, MANAGER, None).ret

-----------------------------------------------------------------------------
(* C25 (as amended): with the seeded admin and no user bob,                *)
(* create_user("bob", "bob@x.com", "Weak1!", role=Agent,                   *)
(* created_by=admin.id) fails and adds no user: "Weak1!" has an uppercase  *)
(* letter, a lowercase letter, a digit and a special character but only    *)
(* six characters, and validation returns the one error "Password must be  *)
(* at least 8 characters".                                                 *)

\* the scenario's call, made while bob's name and email are free
C25_ScenarioCall ==
    /\ Called("create_user")
    /\ last_call'.args.username = U_bob
    /\ last_call'.args.email = E_bob
    /\ last_call'.args.password = P_Weak1
    /\ last_call'.args.role = AGENT
    /\ last_call'.args.created_by = ADMIN_ID
    /\ ~ DuplicateUsername(U_bob)
    /\ ~ DuplicateEmail(E_bob)

C25_ShortPasswordRefused ==
    /\ Len(P_Weak1) = 6
    /\ MIN_LENGTH = 8
    /\ password_errors(P_Weak1) = <<ERR_LENGTH>>
    /\ [][C25_ScenarioCall =>
            /\ last_call'.ret = Result(FALSE, <<ERR_LENGTH>>, None)
            /\ users' = users
            /\ audit_log' = audit_log]_vars

\* C25 as stated: the scenario's call succeeds and adds bob
C25_AsStated ==
    [][C25_ScenarioCall =>
          /\ last_call'.ret.ok
          /\ \E id \in DOMAIN users' \ DOMAIN users : users'[id].username = U_bob]_vars

\* the scenario's call has been refused for the length of the password
C25_Witness ==
    /\ last_call.op = "create_user"
    /\ last_call.args.username = U_bob
    /\ last_call.args.password = P_Weak1
    /\ last_call.args.created_by = ADMIN_ID
    /\ last_call.ret = Result(FALSE, <<ERR_LENGTH>>, None)
    /\ \A id \in DOMAIN users : users[id].username # U_bob
    /\ users[ADMIN_ID].is_active

-----------------------------------------------------------------------------
(* C26: a session enters the store only through a successful login, and    *)
(* enters it active; no step removes a session, and no step sets the       *)
(* is_active flag of an inactive session back to true; a lookup by a       *)
(* caller whose reference names an inactive session returns None.          *)

\* what get_current_session gives a caller holding session token sid
LookupOf(sid) ==
    get_current_session([State EXCEPT !.current_session = sid], now).ret

C26_InactiveUnusable ==
    \A sid \in DOMAIN sessions :
        ~ sessions[sid].is_active => LookupOf(sid) = None /\ ResolvesTo(sid) = None

C26_OneWay ==
    /\ C26_InactiveUnusable
    /\ [][/\ DOMAIN sessions \subseteq DOMAIN sessions'
          /\ \A sid \in DOMAIN sessions :
                ~ sessions[sid].is_active => ~ sessions'[sid].is_active
          /\ \A sid \in DOMAIN sessions' \ DOMAIN sessions :
                /\ Called("login")
                /\ last_call'.ret.ok
                /\ sessions'[sid].is_active
          /\ C26_InactiveUnusable'
          /\ Called("get_current_user") /\ last_call'.ret # None =>
                /\ current_session # None
                /\ sessions[current_session].is_active]_vars

\* the agent logged out and logged in again: the old sessions stay
\* inactive beside the new, active one
C26_Witness ==
    /\ last_call.op = "login"
    /\ last_call.ret.ok
    /\ current_session # None
    /\ sessions[current_session].user_id = AGENT_ID
    /\ sessions[current_session].is_active
    /\ \E i \in 1..Len(audit_log) : audit_log[i].action = "LOGOUT"
    /\ \E sid \in DOMAIN sessions :
          /\ sessions[sid].user_id = AGENT_ID
          /\ ~ sessions[sid].is_active
          /\ LookupOf(sid) = None

-----------------------------------------------------------------------------
(* C27: no step changes the created_at or the expires_at of a session, and *)
(* expires_at is created_at plus SESSION_DURATION_HOURS; a lookup that     *)
(* returns the current user changes nothing in the session store but the   *)
(* current session's last_activity, and it succeeds only before the        *)
(* session's expires_at: at or after creation time + 8 hours the session   *)
(* is not accepted.                                                        *)

C27_FixedExpiry ==
    [][/\ \A sid \in DOMAIN sessions :
             /\ sessions'[sid].expires_at = sessions[sid].expires_at
             /\ sessions'[sid].created_at = sessions[sid].created_at
       /\ \A sid \in DOMAIN sessions' :
             fromisoformat(sessions'[sid].expires_at)
                 = fromisoformat(sessions'[sid].created_at) + SESSION_DURATION_HOURS
       /\ Called("get_current_user") /\ last_call'.ret # None =>
             /\ sessions' = [sessions EXCEPT
                                ![current_session].last_activity = isoformat(now)]
             /\ current_session' = current_session
             /\ now < fromisoformat(sessions[current_session].created_at)
                         + SESSION_DURATION_HOURS]_vars

-----------------------------------------------------------------------------
(* C28: change_password and reset_password leave the session store and the *)
(* current-session reference as they are: a session of the affected user  *)
(* that was active is still active, and one that resolved to the user      *)
(* still does.  An active session becomes inactive only in a logout of     *)
(* that session, in a successful delete_user of its owner, or when a       *)
(* lookup finds the current session expired.                               *)

\* the calls that look the current session up
LookupCalls ==
    {"get_current_user", "delete_user", "has_permission", "has_any_permission",
     "has_all_permissions", "has_role_or_higher", "can_manage_user"}

C28_PasswordCallsKeepSessions ==
    Called("change_password") \/ Called("reset_password") =>
        /\ sessions' = sessions
        /\ current_session' = current_session
        /\ \A sid \in DOMAIN sessions :
              /\ sessions[sid].is_active => sessions'[sid].is_active
              /\ ResolvesTo(sid) # None =>
                    /\ ResolvesTo(sid)' # None
                    /\ ResolvesTo(sid)'.user_id = sessions[sid].user_id

C28_OnlyWaysToEnd ==
    \A sid \in DOMAIN sessions :
        sessions[sid].is_active /\ ~ sessions'[sid].is_active =>
            \/ Called("logout") /\ sid = current_session
            \/ /\ Called("delete_user")
               /\ last_call'.ret.ok
               /\ sessions[sid].user_id = last_call'.args.user_id
            \/ /\ last_call'.op \in LookupCalls
               /\ sid = current_session
               /\ session_expired(sessions[sid], now)

C28_SessionsSurvivePasswordChange ==
    [][C28_PasswordCallsKeepSessions /\ C28_OnlyWaysToEnd]_vars

\* the agent, logged in twice, has changed the password: both sessions are
\* active and the current one still resolves to the agent
C28_Witness ==
    /\ last_call.op = "change_password"
    /\ last_call.ret.ok
    /\ verify_password(P_new, users[AGENT_ID].password_hash)
    /\ Cardinality({sid \in DOMAIN sessions :
                       sessions[sid].user_id = AGENT_ID /\ sessions[sid].is_active}) >= 2
    /\ CurrentUser # None
    /\ CurrentUser.user_id = AGENT_ID

-----------------------------------------------------------------------------
(* C29: in every reachable state each user's failed-attempt counter is in  *)
(* 0..MAX_FAILED_ATTEMPTS and the user is locked exactly when the counter  *)
(* equals MAX_FAILED_ATTEMPTS.                                             *)

C29_CounterAndLock ==
    \A id \in DOMAIN users :
        /\ users[id].failed_login_attempts \in 0..MAX_FAILED_ATTEMPTS
        /\ users[id].is_locked
              <=> users[id].failed_login_attempts = MAX_FAILED_ATTEMPTS

\* the locked agent has tried one more wrong password: the counter stays
\* at the maximum
C29_Witness ==
    /\ last_call.op = "login"
    /\ last_call.args.username = U_agent
    /\ last_call.args.password = P_wrong
    /\ last_call.ret = Result(FALSE, MSG_ACCOUNT_IS_LOCKED, None)
    /\ users[AGENT_ID].is_locked
    /\ users[AGENT_ID].failed_login_attempts = MAX_FAILED_ATTEMPTS

-----------------------------------------------------------------------------
(* C30: in every reachable state, if is_authenticated() is true then       *)
(* get_current_user() is a user of the directory whose is_active flag is   *)
(* true.                                                                   *)

C30_AuthenticatedIsActive ==
    IsAuthenticated =>
        /\ CurrentUser # None
        /\ CurrentUser.user_id \in DOMAIN users
        /\ CurrentUser.is_active

====
